---- MODULE Spec2Model ----
(***************************************************************************)
(* Model of axaddrspace: the guest address space (AddrSpace), its mapping  *)
(* backends (Linear, Alloc), the nested page table with EPT entries and    *)
(* the frame allocator (MockHal) they run on.                              *)
(*                                                                         *)
(* Addresses are byte addresses.  The page table is a sparse map from a    *)
(* slot <<level, base address>> to its entry; a slot that is absent holds  *)
(* the all-zero entry.  Level 1 slots are 4 KiB pages, level 2 slots are   *)
(* 2 MiB, level 3 slots are 1 GiB, and the single level 4 slot is the      *)
(* root's entry 0 (every address of the model is below 512 GiB).           *)
(***************************************************************************)
EXTENDS Integers, Sequences, FiniteSets, TLC

\* ------------------------------------------------------------------ sizes
PAGE_SIZE_4K == 4096
PAGE_SIZE_2M == 2097152
PAGE_SIZE_1G == 1073741824

\* The starting physical address of the simulated memory (test_utils).
BASE_PADDR == 4096

\* Number of 4 KiB frames the simulated memory holds (MEMORY_LEN / PAGE_SIZE).
MaxFrames == 6

MaxOps == 4

MEMORY_LEN == MaxFrames * PAGE_SIZE_4K

\* Contiguous blocks the host can hand out for huge leaves.
Blocks2M == {4 * PAGE_SIZE_2M, 5 * PAGE_SIZE_2M}
Blocks1G == {PAGE_SIZE_1G}

\* Option::None of an address: no address is negative.
None == 0 - 1

\* ---------------------------------------------------------------- helpers
align_down(addr, align) == addr - (addr % align)

is_aligned(addr, align) == addr % align = 0

is_aligned_4k(addr) == is_aligned(addr, PAGE_SIZE_4K)

Put(f, k, v) == [x \in DOMAIN f \cup {k} |-> IF x = k THEN v ELSE f[x]]

Del(f, k) == [x \in DOMAIN f \ {k} |-> f[x]]

EmptyMap == [x \in {} |-> 0]

Min(S) == CHOOSE x \in S : \A y \in S : x <= y

Max(S) == CHOOSE x \in S : \A y \in S : x >= y

\* ------------------------------------------------------------ address range
from_start_size(start, size) == [start |-> start, end |-> start + size]

range_contains(r, addr) == r.start <= addr /\ addr < r.end

range_contains_range(r, other) == r.start <= other.start /\ other.end <= r.end

range_overlaps(r, other) == r.start < other.end /\ other.start < r.end

range_is_empty(r) == r.start >= r.end

\* ---------------------------------------------------------------- EPT entry
\* An entry is the 64-bit word split into its fields: the frame address
\* (bits 12..52), the R/W/X bits, the memory type (bits 3..5), the huge bit.
RWX == {"READ", "WRITE", "EXECUTE"}

WriteBack == 6

Uncached == 0

ZeroEntry == [paddr |-> 0, rwx |-> {}, mem_type |-> 0, huge |-> FALSE]

\* impl From<MappingFlags> for EPTFlags
EPTFlags_from(f) ==
    IF f = {} THEN [rwx |-> {}, mem_type |-> 0]
    ELSE [rwx |-> f \cap RWX,
          mem_type |-> IF "DEVICE" \notin f THEN WriteBack ELSE 0]

\* impl From<EPTFlags> for MappingFlags
MappingFlags_from(e) ==
    e.rwx \cup (IF e.mem_type = Uncached THEN {"DEVICE"} ELSE {})

new_page(paddr, flags, is_huge) ==
    LET fl == EPTFlags_from(flags)
    IN [paddr |-> align_down(paddr, PAGE_SIZE_4K), rwx |-> fl.rwx,
        mem_type |-> fl.mem_type, huge |-> is_huge]

new_table(paddr) ==
    [paddr |-> align_down(paddr, PAGE_SIZE_4K), rwx |-> RWX,
     mem_type |-> 0, huge |-> FALSE]

set_paddr(e, paddr) == [e EXCEPT !.paddr = align_down(paddr, PAGE_SIZE_4K)]

set_flags(e, flags, is_huge) ==
    LET fl == EPTFlags_from(flags)
    IN [e EXCEPT !.rwx = fl.rwx, !.mem_type = fl.mem_type, !.huge = is_huge]

is_unused(e) == e = ZeroEntry

is_present(e) == e.rwx # {}

is_huge(e) == e.huge

entry_flags(e) == MappingFlags_from(e)

\* ------------------------------------------------------------ frame allocator
\* hal: NEXT_PADDR, ALLOC_COUNT, DEALLOC_COUNT, ALLOC_SHOULD_FAIL of MockHal,
\* the huge blocks handed out so far, and for every frame address how often
\* it was passed to dealloc_frame / dealloc_frames.
InitHal ==
    [NEXT_PADDR |-> BASE_PADDR, ALLOC_COUNT |-> 0, DEALLOC_COUNT |-> 0,
     ALLOC_SHOULD_FAIL |-> FALSE, taken |-> {}, freed |-> EmptyMap]

\* mock_alloc_frame.  NEXT_PADDR stops at the end of the memory: every value
\* at or past the end makes the allocation fail alike.
alloc_frame(h) ==
    IF h.ALLOC_SHOULD_FAIL THEN [frame |-> None, hal |-> h]
    ELSE IF h.NEXT_PADDR >= MEMORY_LEN + BASE_PADDR
         THEN [frame |-> None, hal |-> h]
         ELSE [frame |-> h.NEXT_PADDR,
               hal |-> [h EXCEPT !.NEXT_PADDR = @ + PAGE_SIZE_4K,
                                 !.ALLOC_COUNT = @ + 1]]

\* alloc_frames(num, align): num contiguous frames aligned to align.
alloc_frames(h, num, align) ==
    LET pool == (IF align = PAGE_SIZE_1G THEN Blocks1G ELSE Blocks2M) \ h.taken
    IN IF h.ALLOC_SHOULD_FAIL \/ pool = {} THEN [frame |-> None, hal |-> h]
       ELSE [frame |-> Min(pool),
             hal |-> [h EXCEPT !.taken = @ \cup {Min(pool)},
                               !.ALLOC_COUNT = @ + num]]

note_freed(h, paddr) ==
    Put(h.freed, paddr, IF paddr \in DOMAIN h.freed THEN h.freed[paddr] + 1 ELSE 1)

\* mock_dealloc_frame
dealloc_frame(h, paddr) ==
    [h EXCEPT !.DEALLOC_COUNT = @ + 1, !.freed = note_freed(h, paddr)]

dealloc_frames(h, paddr, num) ==
    [h EXCEPT !.DEALLOC_COUNT = @ + num, !.freed = note_freed(h, paddr)]

\* ---------------------------------------------------------- page table engine
\* PageTable64<ExtendedPageTableMetadata, EPTEntry, H>.  m is the pair of the
\* table's entries and the allocator: m.pt, m.hal.
LevelSize(lvl) ==
    IF lvl = 1 THEN PAGE_SIZE_4K ELSE IF lvl = 2 THEN PAGE_SIZE_2M ELSE PAGE_SIZE_1G

LevelOf(page_size) ==
    IF page_size = PAGE_SIZE_4K THEN 1 ELSE IF page_size = PAGE_SIZE_2M THEN 2 ELSE 3

Slot(lvl, vaddr) ==
    <<lvl, IF lvl = 4 THEN 0 ELSE align_down(vaddr, LevelSize(lvl))>>

EntryAt(pt, lvl, vaddr) ==
    IF Slot(lvl, vaddr) \in DOMAIN pt THEN pt[Slot(lvl, vaddr)] ELSE ZeroEntry

SetEntry(pt, lvl, vaddr, e) ==
    IF e = ZeroEntry THEN Del(pt, Slot(lvl, vaddr)) ELSE Put(pt, Slot(lvl, vaddr), e)

next_table(e) ==
    IF ~is_present(e) THEN "NotMapped"
    ELSE IF is_huge(e) THEN "MappedToHugePage"
    ELSE "Ok"

\* get_entry / get_entry_mut: the level of the entry that covers vaddr.
get_entry(pt, vaddr) ==
    IF next_table(EntryAt(pt, 4, vaddr)) # "Ok"
    THEN [err |-> next_table(EntryAt(pt, 4, vaddr)), lvl |-> 0]
    ELSE IF is_huge(EntryAt(pt, 3, vaddr)) THEN [err |-> "Ok", lvl |-> 3]
    ELSE IF next_table(EntryAt(pt, 3, vaddr)) # "Ok"
    THEN [err |-> next_table(EntryAt(pt, 3, vaddr)), lvl |-> 0]
    ELSE IF is_huge(EntryAt(pt, 2, vaddr)) THEN [err |-> "Ok", lvl |-> 2]
    ELSE IF next_table(EntryAt(pt, 2, vaddr)) # "Ok"
    THEN [err |-> next_table(EntryAt(pt, 2, vaddr)), lvl |-> 0]
    ELSE [err |-> "Ok", lvl |-> 1]

\* get_entry_mut_or_create: walks from the root entry down to the entry of
\* level target, allocating every missing intermediate table on the way.
RECURSIVE get_entry_mut_or_create(_, _, _, _)
get_entry_mut_or_create(m, vaddr, lvl, target) ==
    IF lvl = target THEN [err |-> "Ok", m |-> m]
    ELSE LET e == EntryAt(m.pt, lvl, vaddr)
             a == alloc_frame(m.hal)
         IN IF is_unused(e)
            THEN IF a.frame = None
                 THEN [err |-> "NoMemory", m |-> m]
                 ELSE get_entry_mut_or_create(
                          [pt |-> SetEntry(m.pt, lvl, vaddr, new_table(a.frame)),
                           hal |-> a.hal], vaddr, lvl - 1, target)
            ELSE IF next_table(e) # "Ok" THEN [err |-> next_table(e), m |-> m]
            ELSE get_entry_mut_or_create(m, vaddr, lvl - 1, target)

\* map: the part after the walk w has reached (or failed to reach) the entry.
pt_map_entry(w, vaddr, target, page_size, flags) ==
    IF w.err # "Ok" THEN w
    ELSE IF ~is_unused(EntryAt(w.m.pt, LevelOf(page_size), vaddr))
    THEN [err |-> "AlreadyMapped", m |-> w.m]
    ELSE [err |-> "Ok",
          m |-> [w.m EXCEPT !.pt = SetEntry(w.m.pt, LevelOf(page_size), vaddr,
                     new_page(align_down(target, page_size), flags,
                              LevelOf(page_size) > 1))]]

pt_map(m, vaddr, target, page_size, flags) ==
    pt_map_entry(get_entry_mut_or_create(m, vaddr, 4, LevelOf(page_size)),
                 vaddr, target, page_size, flags)

\* query: g is what get_entry found.
pt_query_entry(g, e, vaddr) ==
    IF g.err # "Ok" THEN [err |-> g.err]
    ELSE IF is_unused(e) THEN [err |-> "NotMapped"]
    ELSE [err |-> "Ok", paddr |-> e.paddr + (vaddr % LevelSize(g.lvl)),
          flags |-> entry_flags(e), page_size |-> LevelSize(g.lvl)]

pt_query_at(g, pt, vaddr) == pt_query_entry(g, EntryAt(pt, g.lvl, vaddr), vaddr)

pt_query(pt, vaddr) == pt_query_at(get_entry(pt, vaddr), pt, vaddr)

\* unmap: an entry that is not present is cleared all the same.
pt_unmap_entry(g, e, pt, vaddr) ==
    IF g.err # "Ok" THEN [err |-> g.err, pt |-> pt]
    ELSE IF ~is_present(e)
    THEN [err |-> "NotMapped", pt |-> SetEntry(pt, g.lvl, vaddr, ZeroEntry)]
    ELSE [err |-> "Ok", pt |-> SetEntry(pt, g.lvl, vaddr, ZeroEntry),
          paddr |-> e.paddr, page_size |-> LevelSize(g.lvl)]

pt_unmap_at(g, pt, vaddr) == pt_unmap_entry(g, EntryAt(pt, g.lvl, vaddr), pt, vaddr)

pt_unmap(pt, vaddr) == pt_unmap_at(get_entry(pt, vaddr), pt, vaddr)

\* remap: rewrites address and flags of whatever entry covers vaddr.
pt_remap_entry(g, e, pt, vaddr, paddr, flags) ==
    IF g.err # "Ok" THEN [err |-> g.err, pt |-> pt]
    ELSE [err |-> "Ok",
          pt |-> SetEntry(pt, g.lvl, vaddr,
                          set_flags(set_paddr(e, paddr), flags, g.lvl > 1))]

pt_remap_at(g, pt, vaddr, paddr, flags) ==
    pt_remap_entry(g, EntryAt(pt, g.lvl, vaddr), pt, vaddr, paddr, flags)

pt_remap(pt, vaddr, paddr, flags) ==
    pt_remap_at(get_entry(pt, vaddr), pt, vaddr, paddr, flags)

\* get_paddr with the offset forgotten.
get_paddr_no_offset(pf, vaddr) == IF pf.kind = "offset" THEN vaddr ELSE 0

\* The closure handed to map_region: |va| va - pa_va_offset (kind "offset")
\* or |_va| PhysAddr::from(0) (kind "zero").
get_paddr(pf, vaddr) == IF pf.kind = "offset" THEN vaddr - pf.off ELSE 0

map_region_page_size(vaddr, paddr, size, allow_huge) ==
    IF allow_huge /\ is_aligned(vaddr, PAGE_SIZE_1G) /\ is_aligned(paddr, PAGE_SIZE_1G)
       /\ size >= PAGE_SIZE_1G
    THEN PAGE_SIZE_1G
    ELSE IF allow_huge /\ is_aligned(vaddr, PAGE_SIZE_2M)
            /\ is_aligned(paddr, PAGE_SIZE_2M) /\ size >= PAGE_SIZE_2M
    THEN PAGE_SIZE_2M
    ELSE PAGE_SIZE_4K

\* map_region: one leaf per round, the first error ends the loop.
RECURSIVE map_region_loop(_, _, _, _, _, _)
map_region_next(r, vaddr, pf, size, page_size, flags, allow_huge) ==
    IF r.err # "Ok" THEN r
    ELSE map_region_loop(r.m, vaddr + page_size, pf, size - page_size, flags, allow_huge)

map_region_page(m, vaddr, paddr, page_size, pf, size, flags, allow_huge) ==
    map_region_next(pt_map(m, vaddr, paddr, page_size, flags),
                    vaddr, pf, size, page_size, flags, allow_huge)

map_region_loop(m, vaddr, pf, size, flags, allow_huge) ==
    IF size <= 0 THEN [err |-> "Ok", m |-> m]
    ELSE map_region_page(m, vaddr, get_paddr(pf, vaddr),
             map_region_page_size(vaddr, get_paddr(pf, vaddr), size, allow_huge),
             pf, size, flags, allow_huge)

pt_map_region(m, vaddr, pf, size, flags, allow_huge) ==
    IF ~is_aligned_4k(vaddr) \/ ~is_aligned_4k(size)
    THEN [err |-> "NotAligned", m |-> m]
    ELSE map_region_loop(m, vaddr, pf, size, flags, allow_huge)

\* unmap_region: "Panic" stands for its two assertions on the leaf it removed.
RECURSIVE unmap_region_loop(_, _, _)
unmap_region_next(u, vaddr, size) ==
    IF u.err # "Ok" THEN [err |-> u.err, pt |-> u.pt]
    ELSE IF ~is_aligned(vaddr, u.page_size) \/ u.page_size > size
    THEN [err |-> "Panic", pt |-> u.pt]
    ELSE unmap_region_loop(u.pt, vaddr + u.page_size, size - u.page_size)

unmap_region_loop(pt, vaddr, size) ==
    IF size <= 0 THEN [err |-> "Ok", pt |-> pt]
    ELSE unmap_region_next(pt_unmap(pt, vaddr), vaddr, size)

pt_unmap_region(pt, vaddr, size) ==
    IF ~is_aligned_4k(vaddr) \/ ~is_aligned_4k(size)
    THEN [err |-> "NotAligned", pt |-> pt]
    ELSE unmap_region_loop(pt, vaddr, size)

\* The frames Drop for the page table returns: every intermediate table and
\* the root.
table_frames(pt) ==
    {pt[s].paddr : s \in {x \in DOMAIN pt : x[1] > 1 /\ is_present(pt[x]) /\ ~is_huge(pt[x])}}

\* ------------------------------------------------------------------ backends
\* A backend is Linear {pa_va_offset, allow_huge} or Alloc {populate}; the
\* fields of the other variant are kept at 0 / FALSE.
new_linear(pa_va_offset, allow_huge) ==
    [kind |-> "Linear", pa_va_offset |-> pa_va_offset, allow_huge |-> allow_huge,
     populate |-> FALSE]

new_alloc(populate) ==
    [kind |-> "Alloc", pa_va_offset |-> 0, allow_huge |-> FALSE, populate |-> populate]

\* .is_ok() of a page table result
is_ok(r) == [ok |-> r.err = "Ok", m |-> r.m]

\* One of the three for-loops of map_alloc: a leaf of page_size at every
\* page of [addr, end), its frame(s) taken from the allocator.  A frame whose
\* pt.map fails stays allocated.
RECURSIVE populate_loop(_, _, _, _, _)
populate_mapped(r, addr, end, page_size, flags) ==
    IF r.err # "Ok" THEN [ok |-> FALSE, m |-> r.m]
    ELSE populate_loop(r.m, addr + page_size, end, page_size, flags)

populate_frame(a, m, addr, end, page_size, flags) ==
    IF a.frame = None THEN [ok |-> FALSE, m |-> m]
    ELSE populate_mapped(pt_map([m EXCEPT !.hal = a.hal], addr, a.frame, page_size, flags),
                         addr, end, page_size, flags)

populate_loop(m, addr, end, page_size, flags) ==
    IF addr >= end THEN [ok |-> TRUE, m |-> m]
    ELSE populate_frame(IF page_size = PAGE_SIZE_4K THEN alloc_frame(m.hal)
                        ELSE alloc_frames(m.hal, page_size \div PAGE_SIZE_4K, page_size),
                        m, addr, end, page_size, flags)

\* The 4 KiB loop: from start_addr, which a huge loop before it has set to
\* end_addr (not to the end of its last huge page).
populate_4K(r, start_addr, end_addr, flags) ==
    IF ~r.ok THEN r
    ELSE populate_loop(r.m, start_addr, end_addr, PAGE_SIZE_4K, flags)

\* The 2 MiB loop and what follows it.
populate_2M(r, start_addr, end_addr, size, flags) ==
    IF ~r.ok THEN r
    ELSE populate_4K(
             IF is_aligned(start_addr, PAGE_SIZE_2M) /\ size >= PAGE_SIZE_2M
             THEN populate_loop(r.m, start_addr, align_down(end_addr, PAGE_SIZE_2M),
                                PAGE_SIZE_2M, flags)
             ELSE r,
             IF is_aligned(start_addr, PAGE_SIZE_2M) /\ size >= PAGE_SIZE_2M
             THEN end_addr ELSE start_addr,
             end_addr, flags)

\* The 1 GiB loop and what follows it.
populate_1G(m, start, end_addr, size, flags) ==
    populate_2M(
        IF is_aligned(start, PAGE_SIZE_1G) /\ size >= PAGE_SIZE_1G
        THEN populate_loop(m, start, align_down(end_addr, PAGE_SIZE_1G),
                           PAGE_SIZE_1G, flags)
        ELSE [ok |-> TRUE, m |-> m],
        IF is_aligned(start, PAGE_SIZE_1G) /\ size >= PAGE_SIZE_1G
        THEN end_addr ELSE start,
        end_addr, size, flags)

\* map_alloc that takes the frames at once, whatever populate says.
map_alloc_eager(m, start, size, flags, populate) ==
    populate_1G(m, start, start + size, size, flags)

\* map_alloc whose lazy branch writes the region's flags into the entries.
map_alloc_lazy_flags(m, start, size, flags, populate) ==
    IF populate THEN populate_1G(m, start, start + size, size, flags)
    ELSE is_ok(pt_map_region(m, start, [kind |-> "zero", off |-> 0], size, flags, FALSE))

map_alloc(m, start, size, flags, populate) ==
    IF populate THEN populate_1G(m, start, start + size, size, flags)
    ELSE is_ok(pt_map_region(m, start, [kind |-> "zero", off |-> 0], size, {}, FALSE))

\* The while-loop of unmap_alloc: releases the frame(s) of the leaf at addr
\* and steps over it.  An address that does not translate is not stepped
\* over: the loop then runs forever ("hang").
RECURSIVE unmap_alloc_query_loop(_, _, _)
unmap_alloc_release(q, m, addr, end) ==
    IF q.err # "Ok" THEN [res |-> "hang", m |-> m]
    ELSE IF ~is_aligned(addr, q.page_size) THEN [res |-> "false", m |-> m]
    ELSE unmap_alloc_query_loop(
             [m EXCEPT !.hal =
                 IF q.page_size = PAGE_SIZE_4K THEN dealloc_frame(m.hal, q.paddr)
                 ELSE dealloc_frames(m.hal, q.paddr, q.page_size \div PAGE_SIZE_4K)],
             addr + q.page_size, end)

unmap_alloc_query_loop(m, addr, end) ==
    IF ~(addr < end) THEN [res |-> "true", m |-> m]
    ELSE unmap_alloc_release(pt_query(m.pt, addr), m, addr, end)

\* The for-loop of unmap_alloc over the 4 KiB pages of the range.
RECURSIVE unmap_alloc_page_loop(_, _, _)
unmap_alloc_page(u, m, addr, end) ==
    IF u.err # "Ok"
    THEN unmap_alloc_page_loop([m EXCEPT !.pt = u.pt], addr + PAGE_SIZE_4K, end)
    ELSE IF u.page_size # PAGE_SIZE_4K
    THEN [res |-> "false", m |-> [m EXCEPT !.pt = u.pt]]
    ELSE unmap_alloc_page_loop([pt |-> u.pt, hal |-> dealloc_frame(m.hal, u.paddr)],
                               addr + PAGE_SIZE_4K, end)

unmap_alloc_page_loop(m, addr, end) ==
    IF addr >= end THEN [res |-> "true", m |-> m]
    ELSE unmap_alloc_page(pt_unmap(m.pt, addr), m, addr, end)

unmap_alloc_pages(r, start, end) ==
    IF r.res # "true" THEN r ELSE unmap_alloc_page_loop(r.m, start, end)

unmap_alloc(m, start, size) ==
    unmap_alloc_pages(unmap_alloc_query_loop(m, start, start + size), start, start + size)

\* handle_page_fault_alloc: a fresh frame is written over the entry by remap.
remap_frame(r, a) == [ok |-> r.err = "Ok", m |-> [pt |-> r.pt, hal |-> a.hal]]

\* The frame is written over the entry of the page behind the fault address.
fault_frame_next_page(a, m, vaddr, orig_flags) ==
    IF a.frame = None THEN [ok |-> FALSE, m |-> m]
    ELSE remap_frame(pt_remap(m.pt, vaddr + PAGE_SIZE_4K, a.frame, orig_flags), a)

fault_frame(a, m, vaddr, orig_flags) ==
    IF a.frame = None THEN [ok |-> FALSE, m |-> m]
    ELSE remap_frame(pt_remap(m.pt, vaddr, a.frame, orig_flags), a)

\* handle_page_fault_alloc that does not look at populate.
handle_page_fault_alloc_any(m, vaddr, orig_flags, populate) ==
    fault_frame(alloc_frame(m.hal), m, vaddr, orig_flags)

handle_page_fault_alloc(m, vaddr, orig_flags, populate) ==
    IF populate THEN [ok |-> FALSE, m |-> m]
    ELSE fault_frame(alloc_frame(m.hal), m, vaddr, orig_flags)

map_linear(m, start, size, flags, allow_huge, pa_va_offset) ==
    is_ok(pt_map_region(m, start, [kind |-> "offset", off |-> pa_va_offset],
                        size, flags, allow_huge))

unmap_region_ok(r, m) ==
    [res |-> IF r.err = "Ok" THEN "true"
             ELSE IF r.err = "Panic" THEN "panic" ELSE "false",
     m |-> [m EXCEPT !.pt = r.pt]]

\* unmap_linear that hands the frames behind the pages to the allocator.
unmap_linear_release(m, start, size) == unmap_alloc(m, start, size)

unmap_linear(m, start, size) == unmap_region_ok(pt_unmap_region(m.pt, start, size), m)

\* impl MappingBackend for Backend
Backend_map(b, m, start, size, flags) ==
    IF b.kind = "Linear"
    THEN map_linear(m, start, size, flags, b.allow_huge, b.pa_va_offset)
    ELSE map_alloc(m, start, size, flags, b.populate)

Backend_unmap(b, m, start, size) ==
    IF b.kind = "Linear" THEN unmap_linear(m, start, size)
    ELSE unmap_alloc(m, start, size)

Backend_handle_page_fault(b, m, vaddr, orig_flags) ==
    IF b.kind = "Linear" THEN [ok |-> FALSE, m |-> m]
    ELSE handle_page_fault_alloc(m, vaddr, orig_flags, b.populate)

\* ---------------------------------------------------------------- memory set
\* MemorySet<Backend>: the areas, one per start address.  An area is
\* [start, size, flags, backend].
MemoryArea_new(start, size, flags, backend) ==
    [start |-> start, size |-> size, flags |-> flags, backend |-> backend]

va_range_of(a) == from_start_size(a.start, a.size)

area_end(a) == a.start + a.size

\* overlaps that looks only at the area that starts before the range.
overlaps_before(areas, range) ==
    \E a \in areas :
        /\ a.start < range.start
        /\ \A b \in areas : b.start < range.start => b.start <= a.start
        /\ range_overlaps(va_range_of(a), range)

\* overlaps: only the last area that starts before the range and the first
\* that starts at or after its start are looked at.
overlaps(areas, range) ==
    \/ \E a \in areas :
           /\ a.start < range.start
           /\ \A b \in areas : b.start < range.start => b.start <= a.start
           /\ range_overlaps(va_range_of(a), range)
    \/ \E a \in areas :
           /\ a.start >= range.start
           /\ \A b \in areas : b.start >= range.start => a.start <= b.start
           /\ range_overlaps(va_range_of(a), range)

first_area(S) == CHOOSE x \in S : \A y \in S : x.start <= y.start

last_area(S) == CHOOSE x \in S : \A y \in S : y.start <= x.start

\* find: the set holding the area that contains addr, empty when there is none.
find_in(cand, addr) ==
    IF cand = {} THEN {}
    ELSE IF range_contains(va_range_of(last_area(cand)), addr) THEN {last_area(cand)}
    ELSE {}

find(areas, addr) == find_in({a \in areas : a.start <= addr}, addr)

ErrOf(res) == IF res = "true" THEN "Ok" ELSE IF res = "false" THEN "BadState" ELSE res

\* map: the area is inserted once the backend has mapped it.
map_area(r, areas, area) ==
    IF ~r.ok THEN [err |-> "BadState", areas |-> areas, m |-> r.m]
    ELSE [err |-> "Ok", areas |-> areas \cup {area}, m |-> r.m]

MemorySet_map(areas, m, area) ==
    IF range_is_empty(va_range_of(area)) THEN [err |-> "InvalidParam", areas |-> areas, m |-> m]
    ELSE IF overlaps(areas, va_range_of(area))
    THEN [err |-> "AlreadyExists", areas |-> areas, m |-> m]
    ELSE map_area(Backend_map(area.backend, m, area.start, area.size, area.flags),
                  areas, area)

\* areas.retain(..): every area of todo, in address order, is unmapped and
\* removed; unmap_area(..).unwrap() panics when the backend reports failure.
RECURSIVE retain_loop(_, _, _)
retain_area(r, areas, a, todo) ==
    IF r.res = "true" THEN retain_loop(areas \ {a}, r.m, todo \ {a})
    ELSE [err |-> IF r.res = "false" THEN "panic" ELSE r.res, areas |-> areas, m |-> r.m]

unmap_area(a, areas, m, todo) ==
    retain_area(Backend_unmap(a.backend, m, a.start, a.size), areas, a, todo)

retain_loop(areas, m, todo) ==
    IF todo = {} THEN [err |-> "Ok", areas |-> areas, m |-> m]
    ELSE unmap_area(first_area(todo), areas, m, todo)

\* The area that starts before start: its right end is cut off (shrink_right),
\* after the area was split at end when it reaches beyond end.
shrink_right(r, areas, before, start, end) ==
    [err |-> ErrOf(r.res), m |-> r.m,
     areas |-> IF area_end(before) <= end
               THEN IF r.res = "true"
                    THEN (areas \ {before}) \cup {[before EXCEPT !.size = start - before.start]}
                    ELSE areas
               ELSE IF r.res = "true"
                    THEN (areas \ {before}) \cup
                         {[before EXCEPT !.size = start - before.start],
                          [before EXCEPT !.start = end, !.size = area_end(before) - end]}
                    ELSE (areas \ {before}) \cup
                         {[before EXCEPT !.size = end - before.start]}]

shrink_area_before(before, areas, m, start, end) ==
    IF start < area_end(before)
    THEN shrink_right(Backend_unmap(before.backend, m, start,
                                    Min({area_end(before), end}) - start),
                      areas, before, start, end)
    ELSE [err |-> "Ok", areas |-> areas, m |-> m]

shrink_before(areas, m, start, end) ==
    IF {a \in areas : a.start < start} = {} THEN [err |-> "Ok", areas |-> areas, m |-> m]
    ELSE shrink_area_before(last_area({a \in areas : a.start < start}), areas, m, start, end)

\* The area that starts inside the range: its left part is cut away.
shrink_left(r, areas, after, end) ==
    [err |-> ErrOf(r.res), m |-> r.m,
     areas |-> IF r.res = "true"
               THEN (areas \ {after}) \cup
                    {[after EXCEPT !.start = end, !.size = area_end(after) - end]}
               ELSE areas \ {after}]

shrink_area_after(after, areas, m, end) ==
    IF after.start < end
    THEN shrink_left(Backend_unmap(after.backend, m, after.start, end - after.start),
                     areas, after, end)
    ELSE [err |-> "Ok", areas |-> areas, m |-> m]

shrink_after(areas, m, start, end) ==
    IF {a \in areas : a.start >= start} = {} THEN [err |-> "Ok", areas |-> areas, m |-> m]
    ELSE shrink_area_after(first_area({a \in areas : a.start >= start}), areas, m, end)

unmap_after(s, start, end) ==
    IF s.err # "Ok" THEN s ELSE shrink_after(s.areas, s.m, start, end)

unmap_before(s, start, end) ==
    IF s.err # "Ok" THEN s
    ELSE unmap_after(shrink_before(s.areas, s.m, start, end), start, end)

MemorySet_unmap(areas, m, start, size) ==
    IF range_is_empty(from_start_size(start, size))
    THEN [err |-> "Ok", areas |-> areas, m |-> m]
    ELSE unmap_before(
             retain_loop(areas, m,
                 {a \in areas :
                     range_contains_range(from_start_size(start, size), va_range_of(a))}),
             start, start + size)

RECURSIVE clear_loop(_, _)
clear_area(r, todo, a) ==
    IF r.res = "true" THEN clear_loop(r.m, todo \ {a})
    ELSE [err |-> ErrOf(r.res), m |-> r.m]

clear_first(a, m, todo) ==
    clear_area(Backend_unmap(a.backend, m, a.start, a.size), todo, a)

clear_loop(m, todo) ==
    IF todo = {} THEN [err |-> "Ok", m |-> m]
    ELSE clear_first(first_area(todo), m, todo)

clear_areas(r, areas) ==
    [err |-> r.err, m |-> r.m, areas |-> IF r.err = "Ok" THEN {} ELSE areas]

MemorySet_clear(areas, m) == clear_areas(clear_loop(m, areas), areas)

\* ------------------------------------------------------------- address space
\* AddrSpace<H>: va_range, areas, pt.  root_paddr is the page table's root
\* frame, hal the allocator, status the life of the address space
\* ("none" before new_empty, "live", "dropped", and "panicked" / "hung" when
\* an operation ended in a panic or never returned).  last is the operation
\* that ran last, with its result and, when it succeeded, its arguments.
\* The host memory is the MEMORY array of test_utils, here MaxBytes bytes
\* long; a host address is an index into it.
MaxBytes == 6

ZeroMemory == [i \in 0..(MaxBytes - 1) |-> 0]

\* No call of the accessor yet.
NoCall ==
    [op |-> "none", t |-> 1, addr |-> 0, len |-> 0, arg |-> <<>>, res |-> "Ok",
     out |-> <<>>]

\* mem and acc belong to the memory accessor: the bytes of the host memory
\* and the call that ran last.  phys_frames and filled belong to PhysFrame: the
\* frame objects that are alive and the byte each frame was filled with.
\* pte: the page-table entry under test with the call that made it.
NoEntry == [op |-> "none", paddr |-> 0, flags |-> {}, huge |-> FALSE, e |-> ZeroEntry]

\* chk: an address range of machine words with the last question put to it.
NoCheck ==
    [op |-> "none", overflow_checks |-> FALSE, base |-> 0, space |-> 0,
     va |-> [start |-> 0, end |-> 0], start |-> 0, size |-> 0,
     range |-> [start |-> 0, end |-> 0], other |-> [start |-> 0, end |-> 0],
     res |-> "Ok"]

VARIABLES va_range, areas, pt, root_paddr, hal, status, last, steps,
          mem, acc, phys_frames, filled, pte, chk

vars == <<va_range, areas, pt, root_paddr, hal, status, last, steps,
          mem, acc, phys_frames, filled, pte, chk>>

\* Every operation is one step of a run of at most MaxOps operations.
Tick == steps < MaxOps /\ steps' = steps + 1

\* A step of the address space (or of the allocator alone).
Step == Tick /\ UNCHANGED <<mem, acc, phys_frames, filled, pte, chk>>

NoRange == [start |-> 0, end |-> 0]

Last(op, res) ==
    [op |-> op, res |-> res, start |-> 0, size |-> 0, hpa |-> 0, populate |-> FALSE]

LastArgs(op, res, start, size, hpa, populate) ==
    [op |-> op, res |-> res, start |-> start, size |-> size, hpa |-> hpa,
     populate |-> populate]

\* contains_range that looks at the start of the range only.
contains_range_start_only(range, start, size) == range_contains(range, start)

contains_range(range, start, size) ==
    range_contains_range(range, from_start_size(start, size))

mapping_err_to_ax_err(err) ==
    IF err = "InvalidParam" THEN "InvalidInput"
    ELSE IF err = "AlreadyExists" THEN "AlreadyExists"
    ELSE IF err = "BadState" THEN "BadState"
    ELSE err

StatusOf(err) ==
    IF err = "panic" THEN "panicked" ELSE IF err = "hang" THEN "hung" ELSE "live"

translate(range, table, vaddr) ==
    IF ~range_contains(range, vaddr) THEN None
    ELSE LET q == pt_query(table, vaddr)
         IN IF q.err = "Ok" THEN q.paddr ELSE None

\* Option<(PhysAddr, usize)>: some is FALSE for Option::None.
NoLimit == [some |-> FALSE, paddr |-> 0, limit |-> 0]

limit_of(q, found) ==
    IF q.err = "Ok"
    THEN [some |-> TRUE, paddr |-> q.paddr, limit |-> first_area(found).size]
    ELSE NoLimit

\* AddrSpace::translate_and_get_limit: the address and the size of the area.
limit_in(found, table, vaddr) ==
    IF found = {} THEN NoLimit ELSE limit_of(pt_query(table, vaddr), found)

AddrSpace_translate_and_get_limit(range, set, table, vaddr) ==
    IF ~range_contains(range, vaddr) THEN NoLimit
    ELSE limit_in(find(set, vaddr), table, vaddr)

\* ------------------------------------------------------------------- inputs
\* Two address spaces: one around a 2 MiB slot, with one 4 KiB page on each
\* side of it, and one that starts with a 1 GiB slot followed by one page.
Space2M == from_start_size(PAGE_SIZE_2M - PAGE_SIZE_4K,
                           PAGE_SIZE_2M + 2 * PAGE_SIZE_4K)

Space1G == from_start_size(0, PAGE_SIZE_1G + PAGE_SIZE_4K)

Spaces == {Space2M, Space1G}

HugeSize(range) == IF range = Space1G THEN PAGE_SIZE_1G ELSE PAGE_SIZE_2M

HugeSlot(range) == IF range = Space1G THEN 0 ELSE PAGE_SIZE_2M

HalfPage == PAGE_SIZE_4K \div 2

Starts(range) ==
    {a \in {HugeSlot(range) - 2 * PAGE_SIZE_4K, HugeSlot(range) - PAGE_SIZE_4K,
            HugeSlot(range), HugeSlot(range) + HalfPage,
            HugeSlot(range) + HugeSize(range)} : a >= 0}

Sizes(range) ==
    {0, HalfPage, PAGE_SIZE_4K, 3 * PAGE_SIZE_4K, HugeSize(range),
     HugeSize(range) + PAGE_SIZE_4K}

\* A range as large as a huge page is asked for at the huge slot only.
Ranges(range) ==
    {x \in Starts(range) \X Sizes(range) :
        x[2] < HugeSize(range) \/ x[1] = HugeSlot(range)}

\* MappingFlags has bits an EPT entry does not hold: USER is one of them.
FlagSets == {{"READ"}, {"READ", "WRITE"}, {"READ", "USER"}}

AccessSets == {{"READ"}, {"WRITE"}}

HostBase == 256 * PAGE_SIZE_4K

HostAddrs(range) ==
    {HostBase, HostBase + HalfPage} \cup
    (IF range = Space1G THEN {0} ELSE {3 * PAGE_SIZE_2M})

\* A linear range as large as a huge page is asked for only where it becomes
\* one huge leaf, and huge leaves are allowed only for such a range.
LinearInputs(range) ==
    {x \in Ranges(range) \X HostAddrs(range) \X BOOLEAN :
        IF x[1][2] >= HugeSize(range)
        THEN x[3] /\ x[1][2] = HugeSize(range) /\ is_aligned(x[2], HugeSize(range))
        ELSE ~x[3]}

LinearFlags == {"READ", "WRITE"}

\* A lazy range as large as a huge page (512 or more empty 4 KiB entries) is
\* not asked for.
AllocInputs(range) ==
    {x \in Ranges(range) \X BOOLEAN : x[1][2] >= HugeSize(range) => x[2]}

FaultAddrs(range) ==
    {a + d : a \in Starts(range), d \in {0, 8}} \cup {range.end}

\* ------------------------------------------------------------------ actions
Init ==
    /\ va_range = NoRange
    /\ areas = {}
    /\ pt = EmptyMap
    /\ root_paddr = 0
    /\ hal = InitHal
    /\ status = "none"
    /\ last = Last("reset_state", "Ok")
    /\ steps = 0
    /\ mem = ZeroMemory
    /\ acc = NoCall
    /\ phys_frames = <<>>
    /\ filled = EmptyMap
    /\ pte = NoEntry
    /\ chk = NoCheck

\* MockHal::set_alloc_fail
set_alloc_fail(fail) ==
    /\ Step
    /\ status \in {"none", "live"}
    /\ hal.ALLOC_SHOULD_FAIL # fail
    /\ hal' = [hal EXCEPT !.ALLOC_SHOULD_FAIL = fail]
    /\ last' = Last("set_alloc_fail", "Ok")
    /\ UNCHANGED <<va_range, areas, pt, root_paddr, status>>

\* AddrSpace::new_empty: the page table's try_new takes the root frame.
AddrSpace_new_empty(range) ==
    LET a == alloc_frame(hal)
    IN /\ Step
       /\ status = "none"
       /\ IF a.frame = None
          THEN /\ last' = Last("new_empty", "NoMemory")
               /\ UNCHANGED <<va_range, areas, pt, root_paddr, hal, status>>
          ELSE /\ va_range' = range
               /\ areas' = {}
               /\ pt' = EmptyMap
               /\ root_paddr' = a.frame
               /\ hal' = a.hal
               /\ status' = "live"
               /\ last' = LastArgs("new_empty", "Ok", range.start,
                                   range.end - range.start, 0, FALSE)

\* What map_linear, map_alloc and unmap do once their arguments passed the
\* checks: r is the memory set's answer.
Commit(op, r, start, size, hpa, populate) ==
    /\ areas' = r.areas
    /\ pt' = r.m.pt
    /\ hal' = r.m.hal
    /\ status' = StatusOf(r.err)
    /\ last' = IF r.err = "Ok" THEN LastArgs(op, "Ok", start, size, hpa, populate)
               ELSE Last(op, mapping_err_to_ax_err(r.err))
    /\ UNCHANGED <<va_range, root_paddr>>

Reject(op, err) ==
    /\ last' = Last(op, err)
    /\ UNCHANGED <<va_range, areas, pt, root_paddr, hal, status>>

\* AddrSpace::map_linear.  start_vaddr - start_paddr underflows when
\* start_paddr is the larger: a build with overflow checks panics there, a
\* build without wraps, and the later vaddr - offset wraps back.
AddrSpace_map_linear(start_vaddr, start_paddr, size, flags, allow_huge) ==
    /\ Step
    /\ status = "live"
    /\ IF ~contains_range(va_range, start_vaddr, size)
       THEN Reject("map_linear", "InvalidInput")
       ELSE IF ~is_aligned_4k(start_vaddr) \/ ~is_aligned_4k(start_paddr)
               \/ ~is_aligned_4k(size)
       THEN Reject("map_linear", "InvalidInput")
       ELSE \E overflow_checks \in BOOLEAN :
            IF overflow_checks /\ start_paddr > start_vaddr
            THEN /\ status' = "panicked"
                 /\ last' = Last("map_linear", "panic")
                 /\ UNCHANGED <<va_range, areas, pt, root_paddr, hal>>
            ELSE LET offset == start_vaddr - start_paddr
                     area == MemoryArea_new(start_vaddr, size, flags,
                                            new_linear(offset, allow_huge))
                 IN Commit("map_linear",
                           MemorySet_map(areas, [pt |-> pt, hal |-> hal], area),
                           start_vaddr, size, start_paddr, FALSE)

\* AddrSpace::map_alloc
AddrSpace_map_alloc(start, size, flags, populate) ==
    /\ Step
    /\ status = "live"
    /\ IF ~contains_range(va_range, start, size)
       THEN Reject("map_alloc", "InvalidInput")
       ELSE IF ~is_aligned_4k(start) \/ ~is_aligned_4k(size)
       THEN Reject("map_alloc", "InvalidInput")
       ELSE Commit("map_alloc",
                   MemorySet_map(areas, [pt |-> pt, hal |-> hal],
                                 MemoryArea_new(start, size, flags, new_alloc(populate))),
                   start, size, 0, populate)

\* unmap without its alignment check.
AddrSpace_unmap_unaligned(start, size) ==
    /\ Step
    /\ status = "live"
    /\ IF ~contains_range(va_range, start, size)
       THEN Reject("unmap", "InvalidInput")
       ELSE Commit("unmap",
                   MemorySet_unmap(areas, [pt |-> pt, hal |-> hal], start, size),
                   start, size, 0, FALSE)

\* AddrSpace::unmap
AddrSpace_unmap(start, size) ==
    /\ Step
    /\ status = "live"
    /\ IF ~contains_range(va_range, start, size)
       THEN Reject("unmap", "InvalidInput")
       ELSE IF ~is_aligned_4k(start) \/ ~is_aligned_4k(size)
       THEN Reject("unmap", "InvalidInput")
       ELSE Commit("unmap",
                   MemorySet_unmap(areas, [pt |-> pt, hal |-> hal], start, size),
                   start, size, 0, FALSE)

\* AddrSpace::clear: self.areas.clear(&mut self.pt).unwrap()
clear_result(r) ==
    [r EXCEPT !.err = IF r.err = "BadState" THEN "panic" ELSE r.err]

AddrSpace_clear ==
    /\ Step
    /\ status = "live"
    /\ Commit("clear", clear_result(MemorySet_clear(areas, [pt |-> pt, hal |-> hal])),
              0, 0, 0, FALSE)

\* handle_page_fault that installs the page with the flags of the access.
fault_in_access_flags(found, m, vaddr, access_flags) ==
    IF found = {} THEN [ok |-> FALSE, m |-> m]
    ELSE IF ~(access_flags \subseteq first_area(found).flags) THEN [ok |-> FALSE, m |-> m]
    ELSE Backend_handle_page_fault(first_area(found).backend, m, vaddr, access_flags)

\* AddrSpace::handle_page_fault
fault_in(found, m, vaddr, access_flags) ==
    IF found = {} THEN [ok |-> FALSE, m |-> m]
    ELSE IF ~(access_flags \subseteq first_area(found).flags) THEN [ok |-> FALSE, m |-> m]
    ELSE Backend_handle_page_fault(first_area(found).backend, m, vaddr,
                                   first_area(found).flags)

handle_page_fault(range, set, m, vaddr, access_flags) ==
    IF ~range_contains(range, vaddr) THEN [ok |-> FALSE, m |-> m]
    ELSE fault_in(find(set, vaddr), m, vaddr, access_flags)

Faulted(r, vaddr) ==
    /\ pt' = r.m.pt
    /\ hal' = r.m.hal
    /\ last' = IF r.ok THEN LastArgs("handle_page_fault", "true", vaddr, 0, 0, FALSE)
               ELSE Last("handle_page_fault", "false")
    /\ UNCHANGED <<va_range, areas, root_paddr, status>>

AddrSpace_handle_page_fault(vaddr, access_flags) ==
    /\ Step
    /\ status = "live"
    /\ Faulted(handle_page_fault(va_range, areas, [pt |-> pt, hal |-> hal],
                                 vaddr, access_flags), vaddr)

\* The frames the page table's Drop hands back: the tables, then the root.
RECURSIVE dealloc_all(_, _)
dealloc_all(h, frames) ==
    IF frames = {} THEN h
    ELSE dealloc_all(dealloc_frame(h, Min(frames)), frames \ {Min(frames)})

\* Drop that hands back the tables and keeps the root.
Dropped_keep_root(r) ==
    /\ areas' = r.areas
    /\ IF r.err = "Ok"
       THEN /\ status' = "dropped"
            /\ pt' = EmptyMap
            /\ hal' = dealloc_all(r.m.hal, table_frames(r.m.pt))
            /\ last' = Last("drop", "Ok")
       ELSE /\ status' = StatusOf(r.err)
            /\ pt' = r.m.pt
            /\ hal' = r.m.hal
            /\ last' = Last("drop", r.err)
    /\ UNCHANGED <<va_range, root_paddr>>

\* Drop for AddrSpace: clear(), then the fields are dropped.
Dropped(r) ==
    /\ areas' = r.areas
    /\ IF r.err = "Ok"
       THEN /\ status' = "dropped"
            /\ pt' = EmptyMap
            /\ hal' = dealloc_frame(dealloc_all(r.m.hal, table_frames(r.m.pt)),
                                    root_paddr)
            /\ last' = Last("drop", "Ok")
       ELSE /\ status' = StatusOf(r.err)
            /\ pt' = r.m.pt
            /\ hal' = r.m.hal
            /\ last' = Last("drop", r.err)
    /\ UNCHANGED <<va_range, root_paddr>>

AddrSpace_drop ==
    /\ Step
    /\ status = "live"
    /\ Dropped(clear_result(MemorySet_clear(areas, [pt |-> pt, hal |-> hal])))

Next ==
    \/ \E fail \in BOOLEAN : set_alloc_fail(fail)
    \/ \E range \in Spaces : AddrSpace_new_empty(range)
    \/ \E x \in LinearInputs(va_range) :
           AddrSpace_map_linear(x[1][1], x[2], x[1][2], LinearFlags, x[3])
    \/ \E x \in AllocInputs(va_range), flags \in FlagSets :
           AddrSpace_map_alloc(x[1][1], x[1][2], flags, x[2])
    \/ \E x \in Ranges(va_range) : AddrSpace_unmap(x[1], x[2])
    \/ AddrSpace_clear
    \/ \E vaddr \in FaultAddrs(va_range), access \in AccessSets :
           AddrSpace_handle_page_fault(vaddr, access)
    \/ AddrSpace_drop

Spec == Init /\ [][Next]_vars

\* ------------------------------------------------------------ memory accessor
\* A translator is the list of its regions: guest addresses
\* [gstart, gstart + memory_size) lie at base_addr in the host memory.
\* MockTranslator is the translator of one region that starts at guest
\* address 0.  Every translator of the model keeps inside the host memory, as
\* the assertion of mock_phys_to_virt demands.
MockTranslator_new(base_addr, memory_size) ==
    <<[gstart |-> 0, base_addr |-> base_addr, memory_size |-> memory_size]>>

HalfBytes == MaxBytes \div 2

\* mock_phys_to_virt that folds the memory onto its first half.
mock_phys_to_virt_folded(paddr) == (paddr - BASE_PADDR) % HalfBytes

mock_phys_to_virt(paddr) == paddr - BASE_PADDR

\* A translator that reports one byte less than the region still holds.
translate_region_short(r, guest_addr) ==
    IF r.gstart <= guest_addr /\ guest_addr - r.gstart < r.memory_size
    THEN [some |-> TRUE,
          paddr |-> mock_phys_to_virt(BASE_PADDR + r.base_addr + (guest_addr - r.gstart)),
          limit |-> r.memory_size - (guest_addr - r.gstart) - 1]
    ELSE NoLimit

translate_region(r, guest_addr) ==
    IF r.gstart <= guest_addr /\ guest_addr - r.gstart < r.memory_size
    THEN [some |-> TRUE,
          paddr |-> mock_phys_to_virt(BASE_PADDR + r.base_addr + (guest_addr - r.gstart)),
          limit |-> r.memory_size - (guest_addr - r.gstart)]
    ELSE NoLimit

\* GuestMemoryAccessor::translate_and_get_limit: the first region that holds
\* the guest address.
translate_and_get_limit(t, guest_addr) ==
    LET hits == {i \in DOMAIN t : translate_region(t[i], guest_addr).some}
    IN  IF hits = {} THEN NoLimit ELSE translate_region(t[Min(hits)], guest_addr)

\* copy_nonoverlapping / read_volatile out of the host memory.
copy_out(m, host_addr, n) ==
    [k \in 1..n |-> IF host_addr + k - 1 \in DOMAIN m THEN m[host_addr + k - 1] ELSE 0]

\* copy_nonoverlapping / write_volatile into the host memory.
copy_in(m, host_addr, data) ==
    [i \in DOMAIN m |->
        IF host_addr <= i /\ i < host_addr + Len(data) THEN data[i - host_addr + 1]
        ELSE m[i]]

\* GuestMemoryAccessor::read_obj::<V>, size the size of V.
read_obj(t, m, guest_addr, size) ==
    LET r == translate_and_get_limit(t, guest_addr)
    IN  IF ~r.some THEN [res |-> "InvalidInput", out |-> <<>>]
        ELSE IF r.limit < size THEN [res |-> "InvalidInput", out |-> <<>>]
        ELSE [res |-> "Ok", out |-> copy_out(m, r.paddr, size)]

\* write_obj without the check of the limit.
write_obj_unchecked(t, m, guest_addr, val) ==
    LET r == translate_and_get_limit(t, guest_addr)
    IN  IF ~r.some THEN [res |-> "InvalidInput", mem |-> m]
        ELSE [res |-> "Ok", mem |-> copy_in(m, r.paddr, val)]

\* GuestMemoryAccessor::write_obj::<V>, val the bytes of the value.
write_obj(t, m, guest_addr, val) ==
    LET r == translate_and_get_limit(t, guest_addr)
    IN  IF ~r.some THEN [res |-> "InvalidInput", mem |-> m]
        ELSE IF r.limit < Len(val) THEN [res |-> "InvalidInput", mem |-> m]
        ELSE [res |-> "Ok", mem |-> copy_in(m, r.paddr, val)]

\* The while-loop of read_buffer: out is the part of the buffer filled so
\* far, rem the number of bytes still to read.  A round that reads no byte
\* leaves every variable of the loop as it was: the loop never ends ("hang").
RECURSIVE read_buffer_loop(_, _, _, _, _)
read_buffer_round(r, t, m, cur, rem, out) ==
    IF ~r.some THEN [res |-> "InvalidInput", out |-> out]
    ELSE IF Min({rem, r.limit}) = 0 THEN [res |-> "hang", out |-> out]
    ELSE read_buffer_loop(t, m, cur + Min({rem, r.limit}), rem - Min({rem, r.limit}),
                          out \o copy_out(m, r.paddr, Min({rem, r.limit})))

read_buffer_loop(t, m, cur, rem, out) ==
    IF rem = 0 THEN [res |-> "Ok", out |-> out]
    ELSE read_buffer_round(translate_and_get_limit(t, cur), t, m, cur, rem, out)

\* GuestMemoryAccessor::read_buffer, len the length of the buffer.
read_buffer(t, m, guest_addr, len) ==
    LET r == translate_and_get_limit(t, guest_addr)
    IN  IF len = 0 THEN [res |-> "Ok", out |-> <<>>]
        ELSE IF ~r.some THEN [res |-> "InvalidInput", out |-> <<>>]
        ELSE IF r.limit >= len THEN [res |-> "Ok", out |-> copy_out(m, r.paddr, len)]
        ELSE read_buffer_loop(t, m, guest_addr, len, <<>>)

\* The while-loop of write_buffer over the bytes that remain.
RECURSIVE write_buffer_loop(_, _, _, _)
\* A round of write_buffer that does not move on in the guest.
write_buffer_round_in_place(r, t, m, cur, rem) ==
    IF ~r.some THEN [res |-> "InvalidInput", mem |-> m]
    ELSE IF Min({Len(rem), r.limit}) = 0 THEN [res |-> "hang", mem |-> m]
    ELSE write_buffer_loop(t, copy_in(m, r.paddr, SubSeq(rem, 1, Min({Len(rem), r.limit}))),
                           cur,
                           SubSeq(rem, Min({Len(rem), r.limit}) + 1, Len(rem)))

write_buffer_round(r, t, m, cur, rem) ==
    IF ~r.some THEN [res |-> "InvalidInput", mem |-> m]
    ELSE IF Min({Len(rem), r.limit}) = 0 THEN [res |-> "hang", mem |-> m]
    ELSE write_buffer_loop(t, copy_in(m, r.paddr, SubSeq(rem, 1, Min({Len(rem), r.limit}))),
                           cur + Min({Len(rem), r.limit}),
                           SubSeq(rem, Min({Len(rem), r.limit}) + 1, Len(rem)))

write_buffer_loop(t, m, cur, rem) ==
    IF rem = <<>> THEN [res |-> "Ok", mem |-> m]
    ELSE write_buffer_round(translate_and_get_limit(t, cur), t, m, cur, rem)

\* write_buffer that translates before it looks at the buffer.
write_buffer_translate_first(t, m, guest_addr, buffer) ==
    LET r == translate_and_get_limit(t, guest_addr)
    IN  IF ~r.some THEN [res |-> "InvalidInput", mem |-> m]
        ELSE IF r.limit >= Len(buffer)
        THEN [res |-> "Ok", mem |-> copy_in(m, r.paddr, buffer)]
        ELSE write_buffer_loop(t, m, guest_addr, buffer)

\* GuestMemoryAccessor::write_buffer
write_buffer(t, m, guest_addr, buffer) ==
    LET r == translate_and_get_limit(t, guest_addr)
    IN  IF buffer = <<>> THEN [res |-> "Ok", mem |-> m]
        ELSE IF ~r.some THEN [res |-> "InvalidInput", mem |-> m]
        ELSE IF r.limit >= Len(buffer)
        THEN [res |-> "Ok", mem |-> copy_in(m, r.paddr, buffer)]
        ELSE write_buffer_loop(t, m, guest_addr, buffer)

\* The translators: two that share no host byte (the two VMs of
\* test_two_vm_isolation) and one of two regions that are neighbours in the
\* guest and apart in the host.
ThirdBytes == MaxBytes \div 3

Translators ==
    <<MockTranslator_new(0, HalfBytes),
      MockTranslator_new(HalfBytes, MaxBytes - HalfBytes),
      <<[gstart |-> 0, base_addr |-> 2 * ThirdBytes, memory_size |-> ThirdBytes],
        [gstart |-> ThirdBytes, base_addr |-> 0, memory_size |-> ThirdBytes]>>>>

\* The guest addresses of the calls: every address some translator holds and
\* the first address that none holds.
GuestAddrs == 0..(2 * ThirdBytes)

Buffers == {<<>>, <<1>>, <<1, 2>>, <<2, 1, 2>>}

Values == {<<1>>, <<2, 1>>}

\* A run of the accessor is at most MaxCalls calls long.
MaxCalls == 2

\* What a call leaves behind: the call with its arguments (len the size of V
\* or the length of the buffer, arg the bytes to write), its result, the bytes
\* it read and the memory.
Called(op, i, guest_addr, len, arg, res, out, m) ==
    /\ steps < MaxCalls
    /\ steps' = steps + 1
    /\ acc' = [op |-> op, t |-> i, addr |-> guest_addr, len |-> len, arg |-> arg,
               res |-> res, out |-> out]
    /\ mem' = m
    /\ UNCHANGED <<va_range, areas, pt, root_paddr, hal, status, last, phys_frames, filled,
                   pte, chk>>

Accessor_read_obj(i, guest_addr, size) ==
    LET r == read_obj(Translators[i], mem, guest_addr, size)
    IN  Called("read_obj", i, guest_addr, size, <<>>, r.res, r.out, mem)

Accessor_write_obj(i, guest_addr, val) ==
    LET r == write_obj(Translators[i], mem, guest_addr, val)
    IN  Called("write_obj", i, guest_addr, Len(val), val, r.res, <<>>, r.mem)

Accessor_read_buffer(i, guest_addr, len) ==
    LET r == read_buffer(Translators[i], mem, guest_addr, len)
    IN  Called("read_buffer", i, guest_addr, len, <<>>, r.res, r.out, mem)

Accessor_write_buffer(i, guest_addr, buffer) ==
    LET r == write_buffer(Translators[i], mem, guest_addr, buffer)
    IN  Called("write_buffer", i, guest_addr, Len(buffer), buffer, r.res, <<>>, r.mem)

NextAccessor ==
    \/ \E i \in DOMAIN Translators, guest_addr \in GuestAddrs, val \in Values :
           Accessor_read_obj(i, guest_addr, Len(val))
    \/ \E i \in DOMAIN Translators, guest_addr \in GuestAddrs, val \in Values :
           Accessor_write_obj(i, guest_addr, val)
    \/ \E i \in DOMAIN Translators, guest_addr \in GuestAddrs, buffer \in Buffers :
           Accessor_read_buffer(i, guest_addr, Len(buffer))
    \/ \E i \in DOMAIN Translators, guest_addr \in GuestAddrs, buffer \in Buffers :
           Accessor_write_buffer(i, guest_addr, buffer)

SpecAccessor == Init /\ [][NextAccessor]_vars

\* ------------------------------------------------------------------ PhysFrame
\* phys_frames holds the PhysFrame objects that are alive, each by its
\* start_paddr (None for a frame made by uninit); filled[p] is the byte the
\* frame at p was filled with last.
FillBytes == {0, 1}

Remove(seq, i) == [k \in 1..(Len(seq) - 1) |-> IF k < i THEN seq[k] ELSE seq[k + 1]]

\* What a call on PhysFrame leaves behind.  A panic ends the run.
Framed(op, res, paddr, h, fs, fl) ==
    /\ Tick
    /\ status = "none"
    /\ last' = LastArgs(op, res, 0, 0, paddr, FALSE)
    /\ status' = IF res = "panic" THEN "panicked" ELSE status
    /\ hal' = h
    /\ phys_frames' = fs
    /\ filled' = fl
    /\ UNCHANGED <<va_range, areas, pt, root_paddr, mem, acc, pte, chk>>

\* PhysFrame::alloc that hands out a placeholder when the allocator has no frame.
alloc_placeholder(op, a, fl) ==
    IF a.frame = None THEN Framed(op, "NoMemory", None, a.hal, Append(phys_frames, None), filled)
    ELSE IF a.frame = 0 THEN Framed(op, "panic", 0, a.hal, phys_frames, filled)
    ELSE Framed(op, "Ok", a.frame, a.hal, Append(phys_frames, a.frame), fl)

\* PhysFrame::alloc, a the answer of H::alloc_frame and fl the contents of
\* the memory once the call is over.
alloc(op, a, fl) ==
    IF a.frame = None THEN Framed(op, "NoMemory", None, a.hal, phys_frames, filled)
    ELSE IF a.frame = 0 THEN Framed(op, "panic", 0, a.hal, phys_frames, filled)
    ELSE Framed(op, "Ok", a.frame, a.hal, Append(phys_frames, a.frame), fl)

PhysFrame_alloc == alloc("alloc", alloc_frame(hal), filled)

\* PhysFrame::alloc_zero: alloc()?, then fill(0).
PhysFrame_alloc_zero ==
    alloc("alloc_zero", alloc_frame(hal), Put(filled, alloc_frame(hal).frame, 0))

PhysFrame_uninit ==
    Framed("uninit", "Ok", None, hal, Append(phys_frames, None), filled)

\* PhysFrame::fill on the frame at index i: start_paddr() panics for a frame
\* made by uninit.
PhysFrame_fill(i, byte) ==
    IF phys_frames[i] = None
    THEN Framed("fill", "panic", None, hal, phys_frames, filled)
    ELSE Framed("fill", "Ok", phys_frames[i], hal, phys_frames,
                Put(filled, phys_frames[i], byte))

\* Drop that hands whatever start_paddr holds to the allocator.
drop_unconditional(i) ==
    Framed("drop", "Ok", phys_frames[i], dealloc_frame(hal, phys_frames[i]),
           Remove(phys_frames, i), filled)

\* Drop for PhysFrame, of the frame at index i.
PhysFrame_drop(i) ==
    IF phys_frames[i] = None
    THEN Framed("drop", "Ok", None, hal, Remove(phys_frames, i), filled)
    ELSE Framed("drop", "Ok", phys_frames[i], dealloc_frame(hal, phys_frames[i]),
                Remove(phys_frames, i), filled)

NextFrame ==
    \/ \E fail \in BOOLEAN : set_alloc_fail(fail)
    \/ PhysFrame_alloc
    \/ PhysFrame_alloc_zero
    \/ PhysFrame_uninit
    \/ \E i \in DOMAIN phys_frames, byte \in FillBytes : PhysFrame_fill(i, byte)
    \/ \E i \in DOMAIN phys_frames : PhysFrame_drop(i)

SpecFrame == Init /\ [][NextFrame]_vars

\* ------------------------------------------------------------------ EPTEntry
\* Entries are built and changed for frame addresses up to the largest
\* aligned address below 2^31, aligned or not, and for every flag set.
EntryAddrs ==
    {0, PAGE_SIZE_4K, PAGE_SIZE_4K + 8, PAGE_SIZE_2M, PAGE_SIZE_1G,
     PAGE_SIZE_1G + (PAGE_SIZE_1G - PAGE_SIZE_4K)}

EntryFlagSets == SUBSET {"READ", "WRITE", "EXECUTE", "DEVICE", "USER"}

EntryOnly ==
    UNCHANGED <<va_range, areas, pt, root_paddr, hal, status, last, steps,
                mem, acc, phys_frames, filled, chk>>

EPTEntry_new_page(paddr, flags, huge) ==
    /\ pte' = [op |-> "new_page", paddr |-> paddr, flags |-> flags, huge |-> huge,
               e |-> new_page(paddr, flags, huge)]
    /\ EntryOnly

EPTEntry_new_table(paddr) ==
    /\ pte' = [op |-> "new_table", paddr |-> paddr, flags |-> {}, huge |-> FALSE,
               e |-> new_table(paddr)]
    /\ EntryOnly

EPTEntry_set_paddr(paddr) ==
    /\ pte.op # "none"
    /\ pte' = [pte EXCEPT !.op = "set_paddr", !.paddr = paddr,
                          !.e = set_paddr(pte.e, paddr)]
    /\ EntryOnly

EPTEntry_set_flags(flags, huge) ==
    /\ pte.op # "none"
    /\ pte' = [pte EXCEPT !.op = "set_flags", !.flags = flags, !.huge = huge,
                          !.e = set_flags(pte.e, flags, huge)]
    /\ EntryOnly

NextEntry ==
    \/ \E paddr \in EntryAddrs, flags \in EntryFlagSets, huge \in BOOLEAN :
           EPTEntry_new_page(paddr, flags, huge)
    \/ \E paddr \in EntryAddrs : EPTEntry_new_table(paddr)
    \/ \E paddr \in EntryAddrs : EPTEntry_set_paddr(paddr)
    \/ \E flags \in EntryFlagSets, huge \in BOOLEAN : EPTEntry_set_flags(flags, huge)

SpecEntry == Init /\ [][NextEntry]_vars

\* ------------------------------------------------------ ranges of machine words
\* The machine word, cut down to WordBits bits.
WordBits == 3

WordSize == 2 ^ WordBits

Words == 0..(WordSize - 1)

\* from_start_size on machine words.  usize!(start) + size is a plain
\* addition: a sum past the word panics in a build with overflow checks and
\* wraps around in a build without them.
from_start_size_word(start, size, overflow_checks) ==
    IF start + size >= WordSize /\ overflow_checks
    THEN [panic |-> TRUE, start |-> start, end |-> 0]
    ELSE [panic |-> FALSE, start |-> start, end |-> (start + size) % WordSize]

\* AddrSpace::contains_range on machine words.
contains_range_word(range, start, size, overflow_checks) ==
    IF from_start_size_word(start, size, overflow_checks).panic THEN "panic"
    ELSE IF range_contains_range(range,
                [start |-> start,
                 end |-> from_start_size_word(start, size, overflow_checks).end])
    THEN "true"
    ELSE "false"

\* The spaces: at the bottom, in the middle and up to the top of the words.
WordBases == {0, WordSize \div 4, WordSize \div 2}

WordSpaces == {WordSize \div 4, WordSize \div 2}

RangeOnly ==
    UNCHANGED <<va_range, areas, pt, root_paddr, hal, status, last, steps,
                mem, acc, phys_frames, filled, pte>>

\* AddrSpace::new_empty, as far as the range goes.
Range_new_empty(base, size, overflow_checks) ==
    /\ chk' = [op |-> "new_empty", overflow_checks |-> overflow_checks,
               base |-> base, space |-> size,
               va |-> [start |-> base,
                       end |-> from_start_size_word(base, size, overflow_checks).end],
               start |-> 0, size |-> 0,
               range |-> NoCheck.range, other |-> NoCheck.other,
               res |-> IF from_start_size_word(base, size, overflow_checks).panic
                       THEN "panic" ELSE "Ok"]
    /\ RangeOnly

Range_contains_range(start, size) ==
    /\ chk.op \in {"new_empty", "contains_range"}
    /\ chk.res # "panic"
    /\ chk' = [chk EXCEPT !.op = "contains_range", !.start = start, !.size = size,
                          !.res = contains_range_word(chk.va, start, size,
                                                      chk.overflow_checks)]
    /\ RangeOnly

\* The ranges that new(start, end) builds, the empty ones among them.
WordRanges == [start : Words, end : Words]

\* overlaps, asked of two ranges.  The answer depends on the two ranges
\* only, so the question is put once, before any other.
AddrRange_overlaps(range, other) ==
    /\ chk.op = "none"
    /\ chk' = [NoCheck EXCEPT !.op = "overlaps", !.range = range, !.other = other,
                              !.res = IF range_overlaps(range, other)
                                      THEN "true" ELSE "false"]
    /\ RangeOnly

NextRange ==
    \/ \E base \in WordBases, size \in WordSpaces, overflow_checks \in BOOLEAN :
           Range_new_empty(base, size, overflow_checks)
    \/ \E start \in Words, size \in Words : Range_contains_range(start, size)
    \/ \E range \in WordRanges, other \in WordRanges : AddrRange_overlaps(range, other)

SpecRange == Init /\ [][NextRange]_vars

\* ------------------------------------------------------------------- claims
\* Addresses at which translations are looked at: the offsets into a range of
\* the given size that are its first pages, its last page and the pages on
\* both sides of a 2 MiB and of a 1 GiB boundary.
PageOffsets(size) ==
    {d \in {0, PAGE_SIZE_4K, PAGE_SIZE_2M - PAGE_SIZE_4K, PAGE_SIZE_2M,
            PAGE_SIZE_1G - PAGE_SIZE_4K, PAGE_SIZE_1G, size - PAGE_SIZE_4K} :
        0 <= d /\ d < size}

PagesOf(start, size) == {start + d : d \in PageOffsets(size)}

\* The same pages, each at its first byte, at byte 8 and at its last byte.
BytesOf(start, size) ==
    {start + d + b : d \in PageOffsets(size), b \in {0, 8, PAGE_SIZE_4K - 1}}

ProbeAddrs(range) ==
    FaultAddrs(range) \cup
    {HugeSlot(range) + PAGE_SIZE_4K, HugeSlot(range) + 2 * PAGE_SIZE_4K,
     HugeSlot(range) + HugeSize(range) - PAGE_SIZE_4K}

\* C1: once the address space has been cleared and dropped, the allocator has
\* been handed back exactly as many frames as it handed out.
C1_AllocationConservation ==
    status = "dropped" => hal.ALLOC_COUNT = hal.DEALLOC_COUNT

\* C2: after an unmap or a clear that returned, no frame address has been
\* passed to dealloc_frame / dealloc_frames more than once.
C2_DeallocatedOnce ==
    (last.op \in {"unmap", "clear"} /\ last.res = "Ok") =>
        \A f \in DOMAIN hal.freed : hal.freed[f] = 1

\* C3: after map_alloc(start, size, flags, populate = true) returned Ok, every
\* 4 KiB page of [start, start + size) translates.
C3_PopulatedTranslates ==
    (last.op = "map_alloc" /\ last.res = "Ok" /\ last.populate) =>
        \A gpa \in PagesOf(last.start, last.size) :
            translate(va_range, pt, gpa) # None

\* C4: in every state of a live address space, an address outside the
\* address-space range or inside no region does not translate.
C4_UnmappedIsNone ==
    status = "live" =>
        \A gpa \in ProbeAddrs(va_range) :
            (~range_contains(va_range, gpa) \/ find(areas, gpa) = {}) =>
                translate(va_range, pt, gpa) = None

\* C5: after map_linear(start_gpa, start_hpa, size, flags) returned Ok, every
\* address gpa of [start_gpa, start_gpa + size), aligned or not, translates to
\* start_hpa + (gpa - start_gpa).
C5_LinearIdentity ==
    (last.op = "map_linear" /\ last.res = "Ok") =>
        \A gpa \in BytesOf(last.start, last.size) :
            translate(va_range, pt, gpa) = last.hpa + (gpa - last.start)

C5_Witness ==
    /\ last.op = "map_linear" /\ last.res = "Ok"
    /\ last.size >= PAGE_SIZE_2M
    /\ translate(va_range, pt, last.start + PAGE_SIZE_4K + 8)
           = last.hpa + PAGE_SIZE_4K + 8

\* C6: after map_alloc(start, size, flags, populate = false) returned Ok, no
\* address of the region translates; after a handle_page_fault(gpa, access)
\* that returned true, gpa translates.
C6_LazySemantics ==
    /\ (last.op = "map_alloc" /\ last.res = "Ok" /\ ~last.populate) =>
           \A gpa \in BytesOf(last.start, last.size) :
               translate(va_range, pt, gpa) = None
    /\ (last.op = "handle_page_fault" /\ last.res = "true") =>
           translate(va_range, pt, last.start) # None

C6_Witness ==
    /\ last.op = "handle_page_fault" /\ last.res = "true"
    /\ \E a \in find(areas, last.start) : a.backend.kind = "Alloc" /\ ~a.backend.populate
    /\ translate(va_range, pt, last.start) # None

\* C7: handle_page_fault(gpa, access) returns false when gpa is outside the
\* address-space range, when no region covers gpa, when the region's flags do
\* not contain access, when the region is Linear and when it is a populated
\* Alloc region; when it returns true, gpa lies in a lazy Alloc region whose
\* flags contain access, one frame was allocated and the entry of gpa was
\* written.
FaultRefused(vaddr, access) ==
    \/ ~range_contains(va_range, vaddr)
    \/ find(areas, vaddr) = {}
    \/ \E a \in find(areas, vaddr) :
           \/ ~(access \subseteq a.flags)
           \/ a.backend.kind = "Linear"
           \/ a.backend.kind = "Alloc" /\ a.backend.populate

LazyCovers(vaddr, access) ==
    /\ range_contains(va_range, vaddr)
    /\ \E a \in find(areas, vaddr) :
           a.backend.kind = "Alloc" /\ ~a.backend.populate /\ access \subseteq a.flags

C7_PageFaultResult ==
    [][last'.op = "handle_page_fault" =>
          \A vaddr \in FaultAddrs(va_range), access \in AccessSets :
              AddrSpace_handle_page_fault(vaddr, access) =>
                  /\ FaultRefused(vaddr, access) =>
                         last'.res = "false" /\ pt' = pt /\ hal' = hal
                  /\ last'.res = "true" =>
                         /\ LazyCovers(vaddr, access)
                         /\ hal'.ALLOC_COUNT = hal.ALLOC_COUNT + 1
                         /\ pt_query(pt', vaddr).err = "Ok"]_vars

C7_Witness ==
    /\ last.op = "handle_page_fault" /\ last.res = "false"
    /\ \E a \in areas : a.backend.kind = "Linear"
    /\ \E a \in areas : a.backend.kind = "Alloc" /\ a.backend.populate

\* C8: map_linear, map_alloc and unmap return InvalidInput when the range is
\* not contained in the address-space range or when start, size or (for
\* map_linear) start_paddr is not 4 KiB-aligned, and leave the memory set, the
\* page table and the allocation counts as they were: a step of one of the
\* three either returns InvalidInput with everything untouched, or is no call
\* with such arguments.
InvalidArgs(range, start, size) ==
    \/ ~contains_range(range, start, size)
    \/ ~is_aligned_4k(start)
    \/ ~is_aligned_4k(size)

\* The inputs of the three operations that have such arguments, per address
\* space.
InvalidLinearInputs ==
    [range \in Spaces |->
        {x \in LinearInputs(range) :
            InvalidArgs(range, x[1][1], x[1][2]) \/ ~is_aligned_4k(x[2])}]

InvalidAllocInputs ==
    [range \in Spaces |->
        {x \in AllocInputs(range) : InvalidArgs(range, x[1][1], x[1][2])}]

InvalidRanges ==
    [range \in Spaces |-> {x \in Ranges(range) : InvalidArgs(range, x[1], x[2])}]

Untouched ==
    /\ areas' = areas
    /\ pt' = pt
    /\ hal'.ALLOC_COUNT = hal.ALLOC_COUNT
    /\ hal'.DEALLOC_COUNT = hal.DEALLOC_COUNT

Rejected == last'.res = "InvalidInput" /\ Untouched

Overlapping(start, size) ==
    /\ ~InvalidArgs(va_range, start, size)
    /\ \E a \in areas, gpa \in PagesOf(start, size) :
           range_contains(va_range_of(a), gpa)

C9_AlreadyExists ==
    [][last'.op \in {"map_linear", "map_alloc"} =>
          /\ \A x \in LinearInputs(va_range) :
                 /\ Overlapping(x[1][1], x[1][2]) /\ is_aligned_4k(x[2])
                 /\ AddrSpace_map_linear(x[1][1], x[2], x[1][2], LinearFlags, x[3])
                 => last'.res = "AlreadyExists" /\ areas' = areas /\ pt' = pt /\ hal' = hal
          /\ \A x \in AllocInputs(va_range), flags \in FlagSets :
                 /\ Overlapping(x[1][1], x[1][2])
                 /\ AddrSpace_map_alloc(x[1][1], x[1][2], flags, x[2])
                 => last'.res = "AlreadyExists" /\ areas' = areas /\ pt' = pt /\ hal' = hal]_vars

\* C10: no two distinct regions of the memory set overlap.
C10_Disjoint ==
    \A a, b \in areas : a # b => ~range_overlaps(va_range_of(a), va_range_of(b))

C10_Witness ==
    /\ Cardinality(areas) >= 2
    /\ last.op = "unmap" /\ last.res = "Ok"
    /\ \E a \in areas : a.start = last.start + last.size

\* C11: every region of the memory set lies inside the address-space range.
C11_Coverage ==
    \A a \in areas : range_contains_range(va_range, va_range_of(a))

C11_Witness ==
    /\ status = "live"
    /\ \E a \in areas : a.start = va_range.start
    /\ \E a \in areas : area_end(a) = va_range.end /\ a.start # va_range.start

\* The flags the page table reports at the pages of area a that translate.
ReportedFlags(a) ==
    {pt_query(pt, gpa).flags :
        gpa \in {g \in PagesOf(a.start, a.size) : pt_query(pt, g).err = "Ok"}}

\* C12 as stated: in a live address space, at every page of a region that
\* translates, the flags the page table reports are the region's flags.
C12_FlagsEqual ==
    status = "live" => \A a \in areas : \A f \in ReportedFlags(a) : f = a.flags

\* C12, amended: in a live address space, at every page of a region that
\* translates, the READ / WRITE / EXECUTE bits the page table reports are the
\* READ / WRITE / EXECUTE bits of the region's flags; a page installed by
\* handle_page_fault carries the region's bits, not those of the access.
C12_PermissionBits ==
    status = "live" =>
        \A a \in areas : \A f \in ReportedFlags(a) : f \cap RWX = a.flags \cap RWX

C12_Witness ==
    /\ last.op = "handle_page_fault" /\ last.res = "true"
    /\ \E a \in find(areas, last.start) :
           /\ a.flags = {"READ", "WRITE"}
           /\ pt_query(pt, last.start).flags = {"READ", "WRITE"}

\* C13: translate_and_get_limit(gpa) returns with the host address the number
\* of bytes from gpa to the end of the region that contains gpa.
C13_LimitIsResidual ==
    status = "live" =>
        \A gpa \in ProbeAddrs(va_range) :
            AddrSpace_translate_and_get_limit(va_range, areas, pt, gpa).some =>
                \A a \in find(areas, gpa) :
                    AddrSpace_translate_and_get_limit(va_range, areas, pt, gpa).limit
                        = area_end(a) - gpa

\* ------------------------------------------------- claims: memory accessor
\* The host bytes a translator maps to.
HostBytes(t) ==
    UNION {{r.base_addr + k : k \in 0..(r.memory_size - 1)} : r \in {t[i] : i \in DOMAIN t}}

\* The translation of the call that ran last.
Translated == translate_and_get_limit(Translators[acc.t], acc.addr)

\* C14: once write_buffer(gpa, b) has returned Ok, the read_buffer of the same
\* length at gpa that follows returns Ok and reads b, also when the bytes lie
\* in several regions.
C14_WriteThenRead ==
    (acc.op = "write_buffer" /\ acc.res = "Ok")
        => read_buffer(Translators[acc.t], mem, acc.addr, acc.len)
               = [res |-> "Ok", out |-> acc.arg]

C14_Witness ==
    /\ acc.op = "write_buffer"
    /\ acc.res = "Ok"
    /\ Translated.some
    /\ Translated.limit < acc.len
    /\ \E i \in HostBytes(Translators[acc.t]) : mem[i] = 2

ObjRefused ==
    LET r == translate_and_get_limit(Translators[acc'.t], acc'.addr)
    IN  ~r.some \/ r.limit < acc'.len

ObjHost == translate_and_get_limit(Translators[acc'.t], acc'.addr).paddr

\* C16: read_obj and write_obj return InvalidInput when there is no
\* translation or the limit is smaller than the size of V, and write_obj then
\* leaves the memory alone; otherwise they return Ok, read_obj with the size
\* of V bytes found at the translated host address and write_obj having set
\* those bytes and no other.
C16_ObjAccess ==
    [][ /\ acc'.op = "read_obj" =>
              IF ObjRefused THEN acc'.res = "InvalidInput"
              ELSE /\ acc'.res = "Ok"
                   /\ Len(acc'.out) = acc'.len
                   /\ \A k \in 1..acc'.len : acc'.out[k] = mem[ObjHost + k - 1]
        /\ acc'.op = "write_obj" =>
              IF ObjRefused THEN acc'.res = "InvalidInput" /\ mem' = mem
              ELSE /\ acc'.res = "Ok"
                   /\ \A i \in DOMAIN mem :
                          mem'[i] = IF ObjHost <= i /\ i < ObjHost + acc'.len
                                    THEN acc'.arg[i - ObjHost + 1]
                                    ELSE mem[i] ]_vars

C16_Witness ==
    /\ acc.op = "write_obj"
    /\ acc.res = "InvalidInput"
    /\ Translated.some
    /\ Translated.limit < acc.len
    /\ \E i \in DOMAIN mem : mem[i] # 0

\* C17: read_buffer and write_buffer with an empty buffer return Ok at every
\* guest address, also where nothing translates, and leave the memory and the
\* buffer as they were.
C17_EmptyBuffer ==
    [][ (acc'.op \in {"read_buffer", "write_buffer"} /\ acc'.len = 0)
            => (acc'.res = "Ok" /\ mem' = mem /\ acc'.out = <<>>) ]_vars

C17_Witness ==
    /\ acc.op = "write_buffer"
    /\ acc.len = 0
    /\ ~Translated.some
    /\ acc.res = "Ok"
    /\ \E i \in DOMAIN mem : mem[i] # 0

\* Every read through the translator t returns the same from m1 and from m2.
SameReads(t, m1, m2) ==
    /\ \A g \in GuestAddrs, b \in Buffers :
           read_buffer(t, m1, g, Len(b)) = read_buffer(t, m2, g, Len(b))
    /\ \A g \in GuestAddrs, v \in Values :
           read_obj(t, m1, g, Len(v)) = read_obj(t, m2, g, Len(v))

\* C18: a write through one translator changes no value that a read through
\* a translator with other host bytes returns, and an access where the
\* translator has no translation returns InvalidInput.
C18_Isolation ==
    [][ /\ acc'.op \in {"write_obj", "write_buffer"} =>
              \A j \in DOMAIN Translators :
                  HostBytes(Translators[j]) \cap HostBytes(Translators[acc'.t]) = {}
                      => (mem' = mem \/ SameReads(Translators[j], mem, mem'))
        /\ (acc'.len > 0 /\ ~translate_and_get_limit(Translators[acc'.t], acc'.addr).some)
              => acc'.res = "InvalidInput" ]_vars

C18_Witness ==
    /\ acc.op = "write_buffer"
    /\ acc.res = "Ok"
    /\ acc.len > 1
    /\ \E j \in DOMAIN Translators :
           /\ HostBytes(Translators[j]) \cap HostBytes(Translators[acc.t]) = {}
           /\ \E i \in HostBytes(Translators[j]) : mem[i] # 0

\* ------------------------------------------------------- claims: PhysFrame
\* The frames that are alive and hold an address.
LiveFrames == {phys_frames[i] : i \in DOMAIN phys_frames} \ {None}

\* The addresses the allocator has handed out.
HandedOut == {BASE_PADDR + k * PAGE_SIZE_4K : k \in 0..(hal.ALLOC_COUNT - 1)}

\* C19: a frame that alloc or alloc_zero returned goes back to the allocator
\* once, when its PhysFrame is dropped and not before, and the drop of a
\* PhysFrame made by uninit calls dealloc_frame for nothing.
C19_ReturnedOnce ==
    /\ \A p \in HandedOut :
           IF p \in LiveFrames THEN p \notin DOMAIN hal.freed
           ELSE p \in DOMAIN hal.freed /\ hal.freed[p] = 1
    /\ DOMAIN hal.freed \subseteq HandedOut
    /\ hal.DEALLOC_COUNT = Cardinality(HandedOut \ LiveFrames)

C19_Witness ==
    /\ last.op = "drop"
    /\ last.hpa = None
    /\ hal.ALLOC_COUNT = 1
    /\ hal.DEALLOC_COUNT = 1

\* C20: when the allocator has no frame to give, alloc returns NoMemory, the
\* frame objects are the ones there were, and nothing is deallocated.
C20_NoMemory ==
    [][ (last'.op \in {"alloc", "alloc_zero"} /\ alloc_frame(hal).frame = None)
            => /\ last'.res = "NoMemory"
               /\ phys_frames' = phys_frames
               /\ hal'.DEALLOC_COUNT = hal.DEALLOC_COUNT
               /\ hal'.freed = hal.freed ]_vars

C20_Witness ==
    /\ last.op = "alloc"
    /\ last.res = "NoMemory"
    /\ LiveFrames # {}
    /\ hal.DEALLOC_COUNT = 0

\* ------------------------------------------- claims: creation and clearing
\* C21: new_empty takes exactly one frame from the allocator, the root of the
\* page table, and returns NoMemory and builds nothing when the allocator has
\* none; the drop of an address space whose memory set and page table never
\* held anything hands back exactly one frame, the root.
C21_RootFrame ==
    [][ /\ last'.op = "new_empty" =>
              IF alloc_frame(hal).frame = None
              THEN last'.res = "NoMemory" /\ status' = "none" /\ hal' = hal
              ELSE /\ last'.res = "Ok"
                   /\ status' = "live"
                   /\ hal'.ALLOC_COUNT = hal.ALLOC_COUNT + 1
                   /\ hal'.DEALLOC_COUNT = hal.DEALLOC_COUNT
                   /\ root_paddr' = alloc_frame(hal).frame
        /\ (last'.op = "drop" /\ areas = {} /\ pt = EmptyMap) =>
              /\ last'.res = "Ok"
              /\ hal'.ALLOC_COUNT = hal.ALLOC_COUNT
              /\ hal'.DEALLOC_COUNT = hal.DEALLOC_COUNT + 1
              /\ hal'.freed = Put(hal.freed, root_paddr, 1) ]_vars

C21_Witness ==
    /\ status = "dropped"
    /\ last.op = "drop"
    /\ hal.ALLOC_COUNT = 1
    /\ hal.DEALLOC_COUNT = 1
    /\ hal.ALLOC_SHOULD_FAIL

\* The frame (or first frame of the block) behind the page at gpa.
FrameOf(table, gpa) == pt_query(table, gpa).paddr - (gpa % pt_query(table, gpa).page_size)

\* The frames behind the pages of the Alloc regions.
AllocBacked ==
    UNION {{FrameOf(pt, gpa) :
               gpa \in {g \in PagesOf(a.start, a.size) : pt_query(pt, g).err = "Ok"}} :
           a \in {x \in areas : x.backend.kind = "Alloc"}}

\* C22: once clear() has returned, the memory set is empty, no address
\* translates, and every frame that was behind a page of an Alloc region has
\* gone back to the allocator.
C22_Cleared ==
    [][ (last'.op = "clear" /\ last'.res = "Ok") =>
            /\ areas' = {}
            /\ \A gpa \in ProbeAddrs(va_range) : translate(va_range, pt', gpa) = None
            /\ AllocBacked \subseteq DOMAIN hal'.freed ]_vars

\* ----------------------------------------------------- claims: lazy regions
\* The single frames the allocator hands out in the step.
Fresh ==
    {f \in {hal.NEXT_PADDR + k * PAGE_SIZE_4K : k \in 0..MaxFrames} :
        f < hal'.NEXT_PADDR}

\* The frames the leaves of a page table point to.
LeafFrames(table) ==
    {table[s].paddr :
        s \in {x \in DOMAIN table :
                  is_present(table[x]) /\ (x[1] = 1 \/ is_huge(table[x]))}}

\* C23: a map_alloc with populate = false that returns Ok takes no frame for
\* guest data: every frame it takes is a page-table frame, no leaf points to
\* one, no block is taken and no page of the range translates; the frame of a
\* page is the one frame that the handle_page_fault that returns true takes.
C23_LazyCommitsNothing ==
    [][ /\ (last'.op = "map_alloc" /\ last'.res = "Ok" /\ ~last'.populate) =>
              /\ Fresh \subseteq table_frames(pt')
              /\ Fresh \cap LeafFrames(pt') = {}
              /\ hal'.taken = hal.taken
              /\ hal'.ALLOC_COUNT = hal.ALLOC_COUNT + Cardinality(Fresh)
              /\ \A gpa \in PagesOf(last'.start, last'.size) :
                     translate(va_range, pt', gpa) = None
        /\ (last'.op = "handle_page_fault" /\ last'.res = "true") =>
              /\ Fresh = {hal.NEXT_PADDR}
              /\ hal'.ALLOC_COUNT = hal.ALLOC_COUNT + 1
              /\ FrameOf(pt', last'.start) = hal.NEXT_PADDR ]_vars

C23_Witness ==
    /\ last.op = "handle_page_fault"
    /\ last.res = "true"
    /\ hal.ALLOC_COUNT = 5
    /\ \E a \in find(areas, last.start) :
           /\ a.backend.kind = "Alloc"
           /\ ~a.backend.populate
           /\ a.size = 3 * PAGE_SIZE_4K
           /\ Cardinality({g \in PagesOf(a.start, a.size) :
                              translate(va_range, pt, g) # None}) = 1

\* ------------------------------------------------- claims: huge-page leaves
\* The 2 MiB and 1 GiB leaves of the Alloc regions, each with its first
\* address, its size and its block of frames.
HugeLeaves ==
    UNION {{[start |-> align_down(g, pt_query(pt, g).page_size),
             size |-> pt_query(pt, g).page_size,
             frame |-> FrameOf(pt, g)] :
               g \in {x \in PagesOf(a.start, a.size) :
                         /\ pt_query(pt, x).err = "Ok"
                         /\ pt_query(pt, x).page_size > PAGE_SIZE_4K}} :
           a \in {x \in areas : x.backend.kind = "Alloc"}}

\* The ranges unmap accepts: those of the operations and two that lie inside
\* a huge slot, one page behind its start and one page before its end.
UnmapRanges ==
    {x \in Ranges(va_range) \cup
           {<<HugeSlot(va_range) + PAGE_SIZE_4K, PAGE_SIZE_4K>>,
            <<HugeSlot(va_range) + HugeSize(va_range) - PAGE_SIZE_4K, PAGE_SIZE_4K>>} :
        /\ contains_range(va_range, x[1], x[2])
        /\ is_aligned_4k(x[1])
        /\ is_aligned_4k(x[2])}

\* [start, start + size) holds some byte of the leaf and not all of them.
CoversPart(start, size, leaf) ==
    /\ start < leaf.start + leaf.size
    /\ leaf.start < start + size
    /\ ~(start <= leaf.start /\ leaf.start + leaf.size <= start + size)

Released(h, frame) == IF frame \in DOMAIN h.freed THEN h.freed[frame] ELSE 0

\* What unmap does to a leaf it covers in part: r is the answer of the
\* memory set.
LeafKept(r, leaf) ==
    /\ r.err \notin {"Ok", "panic", "hang"}
    /\ \A g \in PagesOf(leaf.start, leaf.size) : pt_query(r.m.pt, g) = pt_query(pt, g)
    /\ Released(r.m.hal, leaf.frame) = Released(hal, leaf.frame)

\* C24: an unmap whose range covers a part of a 2 MiB or 1 GiB leaf of an
\* Alloc region, and not all of it, returns an error, and the leaf is as it
\* was: its addresses translate as before and its frames are not released.
C24_PartialHugeUnmap ==
    status = "live" =>
        \A x \in UnmapRanges : \A leaf \in HugeLeaves :
            CoversPart(x[1], x[2], leaf) =>
                LeafKept(MemorySet_unmap(areas, [pt |-> pt, hal |-> hal], x[1], x[2]), leaf)

\* ------------------------------------------- claims: translated_byte_buffer
\* The while-loop of translated_byte_buffer: v is the list of the slices so
\* far, each with the host address H::phys_to_virt gives for its first byte
\* and its length.  query(start).unwrap() panics where nothing is mapped.
RECURSIVE byte_buffer_loop(_, _, _, _)
\* A slice that ends one page size behind its start, wherever the page ends.
byte_buffer_slice_unaligned(q, table, start, end, v) ==
    IF q.err # "Ok" THEN [res |-> "panic", v |-> v]
    ELSE byte_buffer_loop(table, Min({start + q.page_size, end}), end,
                          Append(v, [host |-> mock_phys_to_virt(q.paddr),
                                     len |-> Min({start + q.page_size, end}) - start]))

byte_buffer_slice(q, table, start, end, v) ==
    IF q.err # "Ok" THEN [res |-> "panic", v |-> v]
    ELSE byte_buffer_loop(table, Min({align_down(start, q.page_size) + q.page_size, end}),
                          end,
                          Append(v, [host |-> mock_phys_to_virt(q.paddr),
                                     len |-> Min({align_down(start, q.page_size)
                                                      + q.page_size, end}) - start]))

byte_buffer_loop(table, start, end, v) ==
    IF ~(start < end) THEN [res |-> "Some", v |-> v]
    ELSE byte_buffer_slice(pt_query(table, start), table, start, end, v)

byte_buffer_in(found, table, vaddr, len) ==
    IF found = {} THEN [res |-> "None", v |-> <<>>]
    ELSE IF len > first_area(found).size THEN [res |-> "None", v |-> <<>>]
    ELSE byte_buffer_loop(table, vaddr, vaddr + len, <<>>)

\* AddrSpace::translated_byte_buffer
translated_byte_buffer(range, set, table, vaddr, len) ==
    IF ~range_contains(range, vaddr) THEN [res |-> "None", v |-> <<>>]
    ELSE byte_buffer_in(find(set, vaddr), table, vaddr, len)

\* The lengths asked of translated_byte_buffer.
BufferLens == {0, 8, PAGE_SIZE_4K, PAGE_SIZE_4K + 8, 2 * PAGE_SIZE_4K, 3 * PAGE_SIZE_4K}

\* The bytes of a buffer that are looked at: the first ones, the last one and
\* those on both sides of the page boundaries.
ByteIndexes(len) ==
    {i \in {0, 8, PAGE_SIZE_4K - 9, PAGE_SIZE_4K - 8, PAGE_SIZE_4K - 1, PAGE_SIZE_4K,
            2 * PAGE_SIZE_4K - 8, 2 * PAGE_SIZE_4K - 1, 2 * PAGE_SIZE_4K, len - 1} :
        0 <= i /\ i < len}

\* The number of bytes in the first k slices.
RECURSIVE BytesBefore(_, _)
BytesBefore(v, k) == IF k = 0 THEN 0 ELSE BytesBefore(v, k - 1) + v[k].len

\* The host address of byte i of the slices taken in order.
HostOfByte(v, i) ==
    LET k == CHOOSE j \in DOMAIN v : BytesBefore(v, j - 1) <= i /\ i < BytesBefore(v, j)
    IN  v[k].host + (i - BytesBefore(v, k - 1))

\* Slice k lies in one page of the size the page table maps its first byte with.
InOnePage(table, vaddr, v, k) ==
    /\ v[k].len > 0
    /\ align_down(vaddr + BytesBefore(v, k - 1),
                  pt_query(table, vaddr + BytesBefore(v, k - 1)).page_size)
         = align_down(vaddr + BytesBefore(v, k) - 1,
                      pt_query(table, vaddr + BytesBefore(v, k - 1)).page_size)

Slices(r, table, vaddr, len) ==
    r.res = "Some" =>
        /\ BytesBefore(r.v, Len(r.v)) = len
        /\ \A k \in DOMAIN r.v : InOnePage(table, vaddr, r.v, k)
        /\ \A i \in ByteIndexes(len) :
               /\ pt_query(table, vaddr + i).err = "Ok"
               /\ HostOfByte(r.v, i) = mock_phys_to_virt(pt_query(table, vaddr + i).paddr)

\* C25: when translated_byte_buffer(gpa, len) returns Some, its slices have
\* len bytes in all, each slice lies within the page that maps it, and byte i
\* of the slices taken in order is the host byte behind gpa + i.
C25_ScatterList ==
    status = "live" =>
        \A vaddr \in ProbeAddrs(va_range), len \in BufferLens :
            Slices(translated_byte_buffer(va_range, areas, pt, vaddr, len), pt, vaddr, len)

\* A buffer that starts inside one page and ends inside the next, where the
\* two pages are not neighbours in host memory.
C25_Witness ==
    /\ status = "live"
    /\ \E vaddr \in ProbeAddrs(va_range), len \in BufferLens :
           LET r == translated_byte_buffer(va_range, areas, pt, vaddr, len)
           IN  /\ r.res = "Some"
               /\ Len(r.v) = 2
               /\ ~is_aligned(vaddr, PAGE_SIZE_4K)
               /\ r.v[2].host # r.v[1].host + r.v[1].len

\* The pages that [vaddr, vaddr + len) touches.
BufferPages(vaddr, len) ==
    {p \in {align_down(vaddr, PAGE_SIZE_4K) + k * PAGE_SIZE_4K : k \in 0..4} : p < vaddr + len}

\* The cases in which translated_byte_buffer has nothing to hand out.
NoBuffer(vaddr, len) ==
    \/ ~range_contains(va_range, vaddr)
    \/ find(areas, vaddr) = {}
    \/ \E a \in find(areas, vaddr) : vaddr + len > a.start + a.size
    \/ \E p \in BufferPages(vaddr, len) : pt_query(pt, p).err # "Ok"

\* C26: translated_byte_buffer(gpa, len) returns None, without a panic, when
\* gpa is out of range or in no region, when the buffer runs past the end of
\* the region of gpa, or when a page of the buffer is not mapped.
C26_NoneWithoutPanic ==
    status = "live" =>
        \A vaddr \in ProbeAddrs(va_range), len \in BufferLens :
            NoBuffer(vaddr, len) =>
                translated_byte_buffer(va_range, areas, pt, vaddr, len).res = "None"

\* ------------------------------------------------------- claims: EPT entries
\* C27: an entry built by new_page(p, f, h), with p aligned to 4 KiB and f a
\* set over READ, WRITE, EXECUTE and DEVICE, has paddr() = p and is_huge() = h,
\* an uncached memory type exactly when DEVICE is in f, and flags() = f.
C27_EntryRoundTrip ==
    ( /\ pte.op = "new_page"
      /\ is_aligned_4k(pte.paddr)
      /\ pte.flags \subseteq {"READ", "WRITE", "EXECUTE", "DEVICE"} ) =>
        /\ pte.e.paddr = pte.paddr
        /\ is_huge(pte.e) = pte.huge
        /\ (pte.e.mem_type = Uncached) = ("DEVICE" \in pte.flags)
        /\ entry_flags(pte.e) = pte.flags

\* --------------------------------------------------- claims: contains_range
\* C28: contains_range(start, size) is true exactly when base <= start and
\* start + size <= base + size of the space, as sums of unbounded integers,
\* for every start and size of the machine word.
C28_ContainsRange ==
    chk.op = "contains_range" =>
        /\ chk.res \in {"true", "false"}
        /\ (chk.res = "true") =
               (chk.base <= chk.start /\ chk.start + chk.size <= chk.base + chk.space)

\* ------------------------------------------------- claims: unmap of lazy regions
\* The regions whose frames come with the page faults.
LazyAreas == {a \in areas : a.backend.kind = "Alloc" /\ ~a.backend.populate}

\* The frames that page faults installed in [start, start + size).
Installed(start, size) ==
    {FrameOf(pt, g) : g \in {p \in PagesOf(start, size) : pt_query(pt, p).err = "Ok"}}

\* [start, start + size) lies in a lazy region and has a page with no frame.
PartlyFaulted(start, size) ==
    /\ size > 0
    /\ \E a \in LazyAreas : a.start <= start /\ start + size <= a.start + a.size
    /\ \E p \in PagesOf(start, size) : pt_query(pt, p).err # "Ok"

\* The outcome r ended with Ok and handed back the frames F, each once, and
\* no other frame.
ReleasedExactly(r, F) ==
    /\ r.err = "Ok"
    /\ \A f \in F \cup DOMAIN r.m.hal.freed :
           Released(r.m.hal, f) = Released(hal, f) + (IF f \in F THEN 1 ELSE 0)

\* C29: unmap and clear over a lazy Alloc region of which some pages have no
\* frame come to an end, and they release the frames that page faults
\* installed in the range, and only those.
C29_LazyUnmapTerminates ==
    (status = "live" /\ LazyAreas # {}) =>
        /\ \A x \in UnmapRanges :
               PartlyFaulted(x[1], x[2]) =>
                   ReleasedExactly(MemorySet_unmap(areas, [pt |-> pt, hal |-> hal],
                                                   x[1], x[2]),
                                   Installed(x[1], x[2]))
        /\ (areas = LazyAreas /\ \E a \in areas : PartlyFaulted(a.start, a.size)) =>
               ReleasedExactly(MemorySet_clear(areas, [pt |-> pt, hal |-> hal]),
                               UNION {Installed(a.start, a.size) : a \in areas})

\* --------------------------------------------- claims: unmap of huge leaves
\* What unmap does to a leaf it covers: r is the answer of the memory set.
LeafReleased(r, leaf) ==
    /\ r.err = "Ok"
    /\ \A g \in PagesOf(leaf.start, leaf.size) : pt_query(r.m.pt, g).err # "Ok"
    /\ Released(r.m.hal, leaf.frame) = Released(hal, leaf.frame) + 1
    /\ r.m.hal.DEALLOC_COUNT = hal.DEALLOC_COUNT + leaf.size \div PAGE_SIZE_4K

\* C30: unmap over a 2 MiB or 1 GiB leaf of a populated Alloc region, from
\* the first address of the leaf and as long as the leaf, returns Ok, removes
\* the leaf and releases its block once with all its frames.
C30_HugeUnmap ==
    status = "live" =>
        \A x \in UnmapRanges : \A leaf \in HugeLeaves :
            (x[1] = leaf.start /\ x[2] = leaf.size) =>
                LeafReleased(MemorySet_unmap(areas, [pt |-> pt, hal |-> hal], x[1], x[2]),
                             leaf)

\* ------------------------------------------------------ claims: page faults
\* The addresses looked at around a fault: the probes and the pages of every
\* region, without the page of the fault address itself.
PagesBeside(vaddr) ==
    {g \in ProbeAddrs(va_range) \cup UNION {BytesOf(a.start, a.size) : a \in areas} :
        align_down(g, PAGE_SIZE_4K) # align_down(vaddr, PAGE_SIZE_4K)}

\* C31: a handle_page_fault that returns true takes one 4 KiB frame and maps
\* the 4 KiB page of the fault address to it; every other page of the region
\* and of the other regions translates as before.
C31_FaultMapsOnePage ==
    [][ (last'.op = "handle_page_fault" /\ last'.res = "true") =>
            /\ hal'.ALLOC_COUNT = hal.ALLOC_COUNT + 1
            /\ hal'.DEALLOC_COUNT = hal.DEALLOC_COUNT
            /\ hal'.taken = hal.taken
            /\ pt_query(pt', last'.start).err = "Ok"
            /\ pt_query(pt', last'.start).page_size = PAGE_SIZE_4K
            /\ translate(va_range, pt', align_down(last'.start, PAGE_SIZE_4K))
                   = hal.NEXT_PADDR
            /\ \A g \in PagesBeside(last'.start) :
                   translate(va_range, pt', g) = translate(va_range, pt, g) ]_vars

\* A fault at an address that is not aligned, in a lazy region of three pages
\* next to a linear region that translates.
C31_Witness ==
    /\ last.op = "handle_page_fault"
    /\ last.res = "true"
    /\ ~is_aligned_4k(last.start)
    /\ \E a \in find(areas, last.start) :
           /\ a.size = 3 * PAGE_SIZE_4K
           /\ translate(va_range, pt, a.start + PAGE_SIZE_4K) = None
    /\ \E b \in areas :
           /\ b.backend.kind = "Linear"
           /\ translate(va_range, pt, b.start) # None

\* ------------------------------------------- claims: a populate that fails
\* The populated ranges map_alloc accepts.
PopulateRanges ==
    {x \in Ranges(va_range) :
        /\ contains_range(va_range, x[1], x[2])
        /\ is_aligned_4k(x[1])
        /\ is_aligned_4k(x[2])}

\* The frames and blocks that h1 has handed out and h had not, without the
\* frames that are tables of the page table.
TakenSince(h1, table) ==
    ({f \in {hal.NEXT_PADDR + k * PAGE_SIZE_4K : k \in 0..MaxFrames} : f < h1.NEXT_PADDR}
        \ table_frames(table))
    \cup (h1.taken \ hal.taken)

\* What is left of a map_alloc that failed: r is the answer of the memory set.
PopulateCleaned(r, start, size) ==
    r.err = "BadState" =>
        /\ r.areas = areas
        /\ \A g \in PagesOf(start, size) : pt_query(r.m.pt, g).err # "Ok"
        /\ \A f \in TakenSince(r.m.hal, r.m.pt) :
               Released(r.m.hal, f) = Released(hal, f) + 1

\* C32: a map_alloc with populate = true that fails part-way returns an
\* error, adds no region, leaves no address of the range translating and has
\* released every frame it took.
C32_FailedPopulateCleaned ==
    status = "live" =>
        \A x \in PopulateRanges :
            PopulateCleaned(MemorySet_map(areas, [pt |-> pt, hal |-> hal],
                                          MemoryArea_new(x[1], x[2], {"READ"},
                                                         new_alloc(TRUE))),
                            x[1], x[2])

\* ---------------------------------------------------- claims: TLB invalidation
\* The leaf entries that differ between two page tables.
changed_entries(table, table1) ==
    {s \in DOMAIN table \cup DOMAIN table1 :
        /\ EntryAt(table, s[1], s[2]) # EntryAt(table1, s[1], s[2])
        /\ \/ s[1] = 1
           \/ is_huge(EntryAt(table, s[1], s[2]))
           \/ is_huge(EntryAt(table1, s[1], s[2]))}

\* The entries for which M::flush_tlb is called while an operation runs.
\* pt.map and pt.remap hand back a TlbFlush token that map_alloc and
\* handle_page_fault_alloc drop with .ok(); the for-loop of unmap_alloc binds
\* the token of pt.unmap to _; map_region is called with flush_tlb_by_page =
\* false and its token ends in .is_ok().  Only unmap_linear asks for a flush,
\* page by page: pt.unmap_region(start, size, true).
tlb_flushed(op, set, table, table1) ==
    IF op \in {"unmap", "clear"}
    THEN {s \in changed_entries(table, table1) :
             \E a \in set : /\ a.backend.kind = "Linear"
                            /\ a.start <= s[2]
                            /\ s[2] < a.start + a.size}
    ELSE {}

\* C33: every leaf entry that map_alloc, handle_page_fault or unmap changes
\* has its TLB entry invalidated before the operation returns (no flush token
\* goes to the caller: the operations return no token).
C33_TlbInvalidated ==
    [][ last'.op \in {"map_alloc", "handle_page_fault", "unmap"} =>
            changed_entries(pt, pt') \subseteq tlb_flushed(last'.op, areas, pt, pt') ]_vars

\* --------------------------------------------- claims: unmap of linear regions
\* The probed addresses of the Linear regions that lie in [start, start + size).
LinearBytesIn(start, size) ==
    UNION {{g \in BytesOf(a.start, a.size) : start <= g /\ g < start + size} :
           a \in {x \in areas : x.backend.kind = "Linear"}}

\* C34: unmap and clear over Linear regions hand no frame to dealloc_frame or
\* dealloc_frames, and when they return Ok no address of the regions inside
\* the range translates any more.
C34_LinearNeverReleased ==
    [][ (last'.op \in {"unmap", "clear"} /\ areas # {}
         /\ \A a \in areas : a.backend.kind = "Linear") =>
            /\ hal'.freed = hal.freed
            /\ hal'.DEALLOC_COUNT = hal.DEALLOC_COUNT
            /\ (last'.op = "unmap" /\ last'.res = "Ok") =>
                   \A g \in LinearBytesIn(last'.start, last'.size) :
                       translate(va_range, pt', g) = None
            /\ (last'.op = "clear" /\ last'.res = "Ok") =>
                   \A g \in LinearBytesIn(va_range.start, va_range.end - va_range.start) :
                       translate(va_range, pt', g) = None ]_vars

\* An unmap that cut the first page off a linear region of three pages.
C34_Witness ==
    /\ last.op = "unmap"
    /\ last.res = "Ok"
    /\ last.size = PAGE_SIZE_4K
    /\ hal.DEALLOC_COUNT = 0
    /\ translate(va_range, pt, last.start) = None
    /\ \E a \in areas :
           /\ a.backend.kind = "Linear"
           /\ a.start = last.start + last.size
           /\ a.size = 2 * PAGE_SIZE_4K
           /\ translate(va_range, pt, a.start) # None

\* ------------------------------------------------- claims: unmap is exact
AllProbes == ProbeAddrs(va_range) \cup UNION {BytesOf(a.start, a.size) : a \in areas}

InRange(g, start, size) == start <= g /\ g < start + size

\* C35: after unmap(start, size) returns Ok no address of [start, start + size)
\* translates, and every address outside it translates as before the call.
C35_UnmapExact ==
    [][ (last'.op = "unmap" /\ last'.res = "Ok") =>
            \A g \in AllProbes :
                IF InRange(g, last'.start, last'.size)
                THEN translate(va_range, pt', g) = None
                ELSE translate(va_range, pt', g) = translate(va_range, pt, g) ]_vars

\* ------------------------------------------- claims: fault on a backed page
\* C36: a handle_page_fault that returns true on a page that already has a
\* frame leaves the translation of the page as it was, and leaves no frame
\* taken from the allocator that no entry of the page table points to.
C36_RefaultKeepsFrame ==
    [][ (last'.op = "handle_page_fault" /\ last'.res = "true"
         /\ pt_query(pt, last'.start).err = "Ok") =>
            /\ translate(va_range, pt', last'.start) = translate(va_range, pt, last'.start)
            /\ \A f \in Fresh \cup {FrameOf(pt, last'.start)} :
                   \/ f \in LeafFrames(pt') \cup table_frames(pt')
                   \/ Released(hal', f) > Released(hal, f) ]_vars

\* --------------------------------------------- claims: a write that fails
\* C38: a write_buffer that returns InvalidInput has changed no byte of the
\* memory.
C38_FailedWriteChangesNothing ==
    [][ (acc'.op = "write_buffer" /\ acc'.res = "InvalidInput") => mem' = mem ]_vars

\* ------------------------------- claims: the accessor over an address space
\* The host ranges that read_buffer and write_buffer copy from or to, in
\* order, when AddrSpace::translate_and_get_limit is the translator: the
\* single copy of the simple case, or one copy for each round of the loop.
RECURSIVE buffer_chunks_loop(_, _, _, _, _)
buffer_chunks_round(r, range, set, table, cur, rem) ==
    IF ~r.some THEN [res |-> "InvalidInput", v |-> <<>>]
    ELSE IF Min({rem, r.limit}) = 0 THEN [res |-> "hang", v |-> <<>>]
    ELSE [res |-> buffer_chunks_loop(range, set, table, cur + Min({rem, r.limit}),
                                     rem - Min({rem, r.limit})).res,
          v |-> <<[host |-> r.paddr, len |-> Min({rem, r.limit})]>>
                \o buffer_chunks_loop(range, set, table, cur + Min({rem, r.limit}),
                                      rem - Min({rem, r.limit})).v]

buffer_chunks_loop(range, set, table, cur, rem) ==
    IF rem = 0 THEN [res |-> "Ok", v |-> <<>>]
    ELSE buffer_chunks_round(AddrSpace_translate_and_get_limit(range, set, table, cur),
                             range, set, table, cur, rem)

buffer_chunks_first(r, range, set, table, guest_addr, len) ==
    IF len = 0 THEN [res |-> "Ok", v |-> <<>>]
    ELSE IF ~r.some THEN [res |-> "InvalidInput", v |-> <<>>]
    ELSE IF r.limit >= len THEN [res |-> "Ok", v |-> <<[host |-> r.paddr, len |-> len]>>]
    ELSE buffer_chunks_loop(range, set, table, guest_addr, len)

buffer_chunks(range, set, table, guest_addr, len) ==
    buffer_chunks_first(AddrSpace_translate_and_get_limit(range, set, table, guest_addr),
                        range, set, table, guest_addr, len)

\* Every page of [vaddr, vaddr + len) lies in a region and is mapped.
Backed(vaddr, len) ==
    /\ len > 0
    /\ \A p \in BufferPages(vaddr, len) :
           /\ range_contains(va_range, p)
           /\ find(areas, p) # {}
           /\ pt_query(pt, p).err = "Ok"

\* Byte i of a buffer that the accessor copies lies at the host address that
\* translate gives for the guest address of the byte.
BytesInPlace(r, vaddr, len) ==
    /\ r.res = "Ok"
    /\ BytesBefore(r.v, Len(r.v)) = len
    /\ \A i \in ByteIndexes(len) :
           HostOfByte(r.v, i) = translate(va_range, pt, vaddr + i)

\* C37: read_buffer and write_buffer over AddrSpace::translate_and_get_limit
\* read or write byte i of the buffer at the host address translate(gpa + i),
\* for every buffer whose pages are all mapped.
C37_AccessorFollowsTranslate ==
    status = "live" =>
        \A vaddr \in ProbeAddrs(va_range), len \in BufferLens :
            Backed(vaddr, len) =>
                BytesInPlace(buffer_chunks(va_range, areas, pt, vaddr, len), vaddr, len)

\* ------------------------------------------------------- claims: overlaps
\* C39: overlaps is true exactly when some address lies in both ranges, and
\* so a range with start >= end overlaps no range.
C39_OverlapsIsCommonAddress ==
    chk.op = "overlaps" =>
        /\ (chk.res = "true") =
               (\E x \in Words : range_contains(chk.range, x) /\ range_contains(chk.other, x))
        /\ (range_is_empty(chk.range) \/ range_is_empty(chk.other)) => chk.res = "false"

\* ------------------------------------- claims: linear mapping above the guest
\* A map_linear of a range that is not empty, with arguments that pass the
\* checks, that overlaps no region, and whose host address is the larger one.
LinearAbove(x) ==
    /\ x[2] > x[1][1]
    /\ x[1][2] > 0
    /\ ~InvalidArgs(va_range, x[1][1], x[1][2])
    /\ is_aligned_4k(x[2])
    /\ ~Overlapping(x[1][1], x[1][2])

\* C40: map_linear(start_gpa, start_hpa, size, flags) with start_hpa above
\* start_gpa does not fail on the subtraction (it fails only when the page
\* table cannot be built), and when it returns Ok every address gpa of the
\* range translates to start_hpa + (gpa - start_gpa).
C40_LinearAboveGuest ==
    [][ last'.op = "map_linear" =>
            \A x \in LinearInputs(va_range) :
                (LinearAbove(x)
                 /\ AddrSpace_map_linear(x[1][1], x[2], x[1][2], LinearFlags, x[3])) =>
                    /\ last'.res \in {"Ok", "BadState"}
                    /\ last'.res = "Ok" =>
                           \A g \in BytesOf(x[1][1], x[1][2]) :
                               translate(va_range, pt', g) = x[2] + (g - x[1][1]) ]_vars

====
